---------------------------- MODULE Spec2Model ----------------------------
(***************************************************************************)
(* A model of the Open Australian Legal Corpus creator: the Request/Entry  *)
(* value types and the normaliser of src/oalc_creator/data.py, the text    *)
(* cleaning and the order-preserving fan-out of src/oalc_creator/          *)
(* helpers.py, and the document fetch of the two scrapers.                 *)
(*                                                                         *)
(* A Python str is a sequence of one-character strings.  Each component    *)
(* has its own specification (SpecText, SpecDoc, ...); the variables of the *)
(* other components stay at their idle values.                             *)
(***************************************************************************)
EXTENDS Integers, Sequences, FiniteSets, TLC

VARIABLES
    text,       \* clean_text: the str handed to clean_text
    textOut,    \* clean_text: the successive results of clean_text, oldest first

    reqLog,     \* Request: the Requests constructed so far, each with its arguments
    reqSet,     \* Request: a Python set to which every constructed Request is added

    title,      \* format_citation: the pieces of the title handed to format_citation
    citeCall,   \* format_citation: the type and jurisdiction of the call, None before it
    citation,   \* format_citation: what the call returned or raised, NoStr before it

    docText,    \* make_doc, make_section: the pieces of the text handed to the call
    docCall,    \* make_doc, make_section: the function called and its arguments
    docResult,  \* make_doc, make_section: what the call returned or raised

    entryId,    \* Entry: the version id handed to Entry(...)
    entry,      \* Entry: the Entry constructed from entryId
    entryCopy,  \* Entry: the Entry constructed again from the fields of entry

    fanKind,    \* fan-out: which fan-out runs, alive_gather or the gather of get_index
    fanOutcome, \* fan-out: per awaitable, the value it will return or the exception
    fanTask,    \* fan-out: per awaitable, the state of the task that runs it
    fanOrder,   \* fan-out: the indices of the finished tasks, in the order they finished
    fanRes,     \* alive_gather: the (index, result) pairs taken from as_completed
    fanBar,     \* alive_gather: the count of the progress bar
    fanPc,      \* fan-out: where the awaiting caller is
    fanResult,  \* fan-out: the list the fan-out returned

    calls,      \* scrapers: per Entry, the _get_doc call made for it
    index,      \* scrapers: a call of get_index_reqs or of get_index
    response,   \* Response: one instance, its cache and what was computed
    wrapped,    \* log: a chain of wrapped calls and the warnings given
    conversion  \* convert_corpus_to_schema: main, its batches and files

textVars == <<text, textOut>>
reqVars == <<reqLog, reqSet>>
citeVars == <<title, citeCall, citation>>
docVars == <<docText, docCall, docResult>>
entryVars == <<entryId, entry, entryCopy>>
fanVars == <<fanKind, fanOutcome, fanTask, fanOrder, fanRes, fanBar, fanPc, fanResult>>
scrapeVars == <<calls>>
moreVars == <<index, response, wrapped, conversion>>

vars == <<text, textOut, reqLog, reqSet, title, citeCall, citation,
          docText, docCall, docResult, entryId, entry, entryCopy,
          fanKind, fanOutcome, fanTask, fanOrder, fanRes, fanBar, fanPc, fanResult,
          calls, index, response, wrapped, conversion>>

\* The values a component's variables keep while another component runs.
TextIdle == text = <<>> /\ textOut = <<>>
ReqIdle == reqLog = <<>> /\ reqSet = {}
CiteIdle ==
    /\ title = <<>>
    /\ citeCall = [type |-> "None", jurisdiction |-> "None"]
    /\ citation = <<"None">>
DocIdle ==
    /\ docText = <<>>
    /\ docCall = [function |-> "None"]
    /\ docResult = [class |-> "NoneType"]
EntryIdle ==
    /\ entryId = <<>>
    /\ entry = [class |-> "NoneType"]
    /\ entryCopy = [class |-> "NoneType"]
FanIdle ==
    /\ fanKind = "None"
    /\ fanOutcome = <<>>
    /\ fanTask = <<>>
    /\ fanOrder = <<>>
    /\ fanRes = <<>>
    /\ fanBar = 0
    /\ fanPc = "None"
    /\ fanResult = <<>>
ScrapeIdle == calls = <<>>
IndexIdle == index = <<>>
ResponseIdle == response = <<>>
WrappedIdle == wrapped = <<>>
ConversionIdle == conversion = <<>>
MoreIdle == IndexIdle /\ ResponseIdle /\ WrappedIdle /\ ConversionIdle

-----------------------------------------------------------------------------
(* Python values shared by the components *)

None == "None"

\* None where a str may stand.
NoStr == <<"None">>

Max(S) == CHOOSE x \in S : \A y \in S : y <= x
Min(S) == CHOOSE x \in S : \A y \in S : x <= y

\* s[from:] of a Python str, from counted from 1.
DropTo(s, from) == SubSeq(s, from, Len(s))

\* str.startswith
StartsWith(s, prefix) ==
    /\ Len(prefix) <= Len(s)
    /\ SubSeq(s, 1, Len(prefix)) = prefix

\* The characters the model writes by name.
LF   == "\n"
TAB  == "\t"
SP   == " "
CR   == "\r"
NBSP == "nbsp"      \* U+00A0, the non-breaking space
BSL  == "\\"        \* the backslash

\* The characters that the regular expression class \s and str.split() take for
\* whitespace, among the characters of the model.
Whitespace == {SP, TAB, LF, CR, NBSP}

IsSpace(c) == c \in Whitespace

AllSpace(s, from, to) == \A k \in from..to : IsSpace(s[k])

\* str.replace(old, new): the occurrences of old, left to right, not overlapping.
RECURSIVE Replace(_, _, _)
Replace(s, old, new) ==
    IF Len(s) < Len(old) \/ old = <<>> THEN s
    ELSE IF StartsWith(s, old) THEN new \o Replace(DropTo(s, Len(old) + 1), old, new)
    ELSE <<Head(s)>> \o Replace(Tail(s), old, new)

\* The str made of the pieces of text, in their order.
RECURSIVE Flatten(_)
Flatten(pieces) ==
    IF pieces = <<>> THEN <<>> ELSE Head(pieces) \o Flatten(Tail(pieces))

-----------------------------------------------------------------------------
(* helpers.py: clean_text *)

\* re.sub(r'(?<=\n)\s*(?=\n)', '\n', text), scanning from position p.  A match at
\* p needs a newline before p; the greedy \s* ends at the last newline of the
\* whitespace run that starts at p.  After an empty match the scan stays at p
\* and must advance (advance = TRUE); after a non-empty one it resumes at the
\* end of the match, where an empty match is allowed again.
RECURSIVE SubBlankLines(_, _, _)
SubBlankLines(s, p, advance) ==
    LET ends == { e \in p..Len(s) :
                    /\ p > 1
                    /\ s[p - 1] = LF
                    /\ s[e] = LF
                    /\ AllSpace(s, p, e - 1)
                    /\ (advance => e > p) }
    IN  IF ends # {}
        THEN LET e == Max(ends)
             IN  <<LF>> \o (IF e = p THEN SubBlankLines(s, p, TRUE)
                                     ELSE SubBlankLines(s, e, FALSE))
        ELSE IF p <= Len(s) THEN <<s[p]>> \o SubBlankLines(s, p + 1, FALSE)
        ELSE <<>>

\* re.sub(r'^\s*\n', '', text): ^ matches at the start of the text only.
SubLeadingBlank(s) ==
    LET ends == { e \in 1..Len(s) : s[e] = LF /\ AllSpace(s, 1, e - 1) }
    IN  IF ends = {} THEN s ELSE DropTo(s, Max(ends) + 1)

\* re.sub(r'\n\s*$', '', text): the leftmost newline after which the text is
\* whitespace to its end.
SubTrailingBlank(s) ==
    LET starts == { i \in 1..Len(s) : s[i] = LF /\ AllSpace(s, i + 1, Len(s)) }
    IN  IF starts = {} THEN s ELSE SubSeq(s, 1, Min(starts) - 1)

\* re.sub(r'[ \t]+\n', '\n', text)
RECURSIVE SubLineEnds(_)
SubLineEnds(s) ==
    IF s = <<>> THEN <<>>
    ELSE LET ends == { e \in 2..Len(s) :
                         /\ s[e] = LF
                         /\ \A k \in 1..(e - 1) : s[k] \in {SP, TAB} }
         IN  IF ends # {}
             THEN <<LF>> \o SubLineEnds(DropTo(s, Min(ends) + 1))
             ELSE <<Head(s)>> \o SubLineEnds(Tail(s))

\* text.replace(r'\r\n', '\n'): the pattern is a raw string, the four characters
\* backslash, r, backslash, n.
RawCrLf == <<BSL, "r", BSL, "n">>

clean_text(s) ==
    LET t1 == Replace(s, <<NBSP>>, <<SP>>)
        t2 == Replace(t1, RawCrLf, <<LF>>)
        t3 == SubBlankLines(t2, 1, FALSE)
        t4 == SubLeadingBlank(t3)
        t5 == SubTrailingBlank(t4)
    IN  SubLineEnds(t5)

-----------------------------------------------------------------------------
(* data.py: Request *)

\* A Python mapping is its class (dict, or the hashable frozendict) and its items
\* in insertion order, each <<key, value>>.
Dict(items) == [kind |-> "dict", items |-> items]
FrozenDict(items) == [kind |-> "frozendict", items |-> items]

\* frozendict(mapping): the same items in an immutable, hashable mapping.
frozendict(m) == [kind |-> "frozendict", items |-> m.items]

ItemSet(m) == { m.items[i] : i \in DOMAIN m.items }

\* dict.__eq__, which frozendict inherits: the same key/value pairs, the class and
\* the insertion order set aside.
MappingEq(m1, m2) == ItemSet(m1) = ItemSet(m2)

\* An exception stands where the value would: a sequence that holds its name.
TypeError == <<"TypeError">>

\* hash(mapping): a dict is unhashable, a frozendict hashes its items.
MappingHash(m) ==
    IF m.kind = "frozendict" THEN <<"frozendict", m.items>> ELSE TypeError

\* A __post_init__ that converts data and forgets headers.
RequestPostInitDataOnly(r) ==
    [r EXCEPT !.data = IF r.data.kind # "frozendict" THEN frozendict(r.data)
                       ELSE r.data]

\* Request.__post_init__: data and headers are made frozendicts unless they are.
RequestPostInit(r) ==
    LET d == IF r.data.kind # "frozendict" THEN frozendict(r.data) ELSE r.data
        h == IF r.headers.kind # "frozendict" THEN frozendict(r.headers) ELSE r.headers
    IN  [r EXCEPT !.data = d, !.headers = h]

\* Request(path, method, data, headers, encoding, selenium)
Request(path, method, data, headers, encoding, selenium) ==
    RequestPostInit([path |-> path, method |-> method, data |-> data,
                     headers |-> headers, encoding |-> encoding,
                     selenium |-> selenium])

\* Request.__eq__ of the msgspec Struct: field by field, in the order declared.
RequestEq(r1, r2) ==
    /\ r1.path = r2.path
    /\ r1.method = r2.method
    /\ MappingEq(r1.data, r2.data)
    /\ MappingEq(r1.headers, r2.headers)
    /\ r1.encoding = r2.encoding
    /\ r1.selenium = r2.selenium

\* Request.__hash__ of the frozen Struct: the hash of the fields, which fails when
\* a field is unhashable.
RequestHash(r) ==
    IF MappingHash(r.data) = TypeError \/ MappingHash(r.headers) = TypeError
    THEN TypeError
    ELSE <<r.path, r.method, MappingHash(r.data), MappingHash(r.headers),
           r.encoding, r.selenium>>

\* set.add(r): r is left out when the set holds a member with r's hash that equals
\* r; an unhashable r raises TypeError and the set stays as it was.
SetAdd(S, r) ==
    IF RequestHash(r) = TypeError THEN S
    ELSE IF \E m \in S : RequestHash(m) = RequestHash(r) /\ RequestEq(m, r) THEN S
    ELSE S \cup {r}

-----------------------------------------------------------------------------
(* The Request component: Requests are constructed and added to a set.  The first
   Request has any arguments; a later one has the arguments of an earlier one,
   with its mappings passed as a dict or as a frozendict and at most one of the
   six fields given another value. *)

MaxRequests == 2

Paths == {"/index", "/doc"}
Methods == {"get", "post"}
Encodings == {"utf-8", "latin-1"}
ItemSeqs == {<<>>, <<(<<"k", "v">>)>>}
Mappings == {Dict(i) : i \in ItemSeqs} \cup {FrozenDict(i) : i \in ItemSeqs}

RequestArgs ==
    [path : Paths, method : Methods, data : Mappings, headers : Mappings,
     encoding : Encodings, selenium : BOOLEAN]

RequestFields == {"path", "method", "data", "headers", "encoding", "selenium"}

\* The value of field f of the arguments a, the class of a mapping set aside.
FieldValue(a, f) ==
    CASE f = "data" -> ItemSet(a.data)
      [] f = "headers" -> ItemSet(a.headers)
      [] f = "path" -> <<a.path>>
      [] f = "method" -> <<a.method>>
      [] f = "encoding" -> <<a.encoding>>
      [] OTHER -> <<a.selenium>>

DifferingFields(a, b) == { f \in RequestFields : FieldValue(a, f) # FieldValue(b, f) }

NewRequest(a) ==
    /\ Len(reqLog) < MaxRequests
    /\ \/ reqLog = <<>>
       \/ \E i \in DOMAIN reqLog : Cardinality(DifferingFields(a, reqLog[i].args)) <= 1
    /\ LET r == Request(a.path, a.method, a.data, a.headers, a.encoding, a.selenium)
       IN  /\ reqLog' = Append(reqLog, [args |-> a, req |-> r])
           /\ reqSet' = SetAdd(reqSet, r)
    /\ UNCHANGED <<textVars, citeVars, docVars, entryVars, fanVars, scrapeVars, moreVars>>

ReqInit == ReqIdle /\ TextIdle /\ CiteIdle /\ DocIdle /\ EntryIdle /\ FanIdle /\ ScrapeIdle /\ MoreIdle

ReqNext == \E a \in RequestArgs : NewRequest(a)

SpecRequest == ReqInit /\ [][ReqNext]_vars

-----------------------------------------------------------------------------
(* data.py: format_citation *)

ValueError == <<"ValueError">>

\* The JURISDICTIONS table of format_citation.
JURISDICTIONS ==
    [j \in {"commonwealth", "new_south_wales", "victoria", "queensland",
            "south_australia", "western_australia", "tasmania",
            "northern_territory", "australian_capital_territory",
            "norfolk_island"} |->
        CASE j = "commonwealth" -> <<"C", "t", "h">>
          [] j = "new_south_wales" -> <<"N", "S", "W">>
          [] j = "victoria" -> <<"V", "i", "c">>
          [] j = "queensland" -> <<"Q", "l", "d">>
          [] j = "south_australia" -> <<"S", "A">>
          [] j = "western_australia" -> <<"W", "A">>
          [] j = "tasmania" -> <<"T", "a", "s">>
          [] j = "northern_territory" -> <<"N", "T">>
          [] j = "australian_capital_territory" -> <<"A", "C", "T">>
          [] j = "norfolk_island" -> <<"N", "I">>]

\* The named character references of html.entities.html5 that can be written
\* with the characters of the model, and the character each stands for.  Only
\* "amp" is a reference without its semicolon.
EntityNames ==
    { <<"a", "m", "p">>, <<"a", "m", "p", ";">>, <<"a", "p", ";">>,
      <<"m", "a", "p", ";">>, <<"m", "p", ";">>, <<"p", "m", ";">> }

EntityChar(name) ==
    CASE name = <<"a", "m", "p">> -> "&"
      [] name = <<"a", "m", "p", ";">> -> "&"
      [] name = <<"a", "p", ";">> -> "U+2248"
      [] name = <<"m", "a", "p", ";">> -> "U+21A6"
      [] name = <<"m", "p", ";">> -> "U+2213"
      [] name = <<"p", "m", ";">> -> "U+00B1"

\* The characters that end the name of a character reference:
\* [^\t\n\f <&#;] of html._charref.
NameStop == {TAB, LF, SP, "<", "&", "#", ";"}

\* html._replace_charref for a named reference s (the text after "&"): s when it
\* is a known name, else its longest known prefix of two characters or more
\* followed by the rest of s, else "&" and s unchanged.
ReplaceCharref(s) ==
    IF s \in EntityNames THEN <<EntityChar(s)>>
    ELSE LET known == { x \in 2..(Len(s) - 1) : SubSeq(s, 1, x) \in EntityNames }
         IN  IF known # {}
             THEN <<EntityChar(SubSeq(s, 1, Max(known)))>> \o DropTo(s, Max(known) + 1)
             ELSE <<"&">> \o s

\* html.unescape(s): each "&" followed by a name (one or more characters that do
\* not end a name, then an optional ";") is replaced, left to right; what was
\* replaced is not scanned again.
RECURSIVE Unescape(_)
Unescape(s) ==
    IF s = <<>> THEN <<>>
    ELSE IF Head(s) = "&" /\ Len(s) >= 2 /\ s[2] \notin NameStop
    THEN LET stops == { k \in 2..Len(s) : s[k] \in NameStop }
             last == IF stops = {} THEN Len(s) ELSE Min(stops) - 1
             end == IF last < Len(s) /\ s[last + 1] = ";" THEN last + 1 ELSE last
         IN  ReplaceCharref(SubSeq(s, 2, end)) \o Unescape(DropTo(s, end + 1))
    ELSE <<Head(s)>> \o Unescape(Tail(s))

Digits == {"0", "1", "2", "3", "4", "5", "6", "7", "8", "9"}

\* re.sub(r' No\s+\d+$', '', title): the leftmost " No", whitespace, digits that
\* runs to the end of the title, or to a newline that ends it ($ also matches
\* before a final newline).
SubTrailingNo(s) ==
    LET last == IF s # <<>> /\ s[Len(s)] = LF /\ Len(s) >= 2 /\ s[Len(s) - 1] \in Digits
                THEN Len(s) - 1 ELSE Len(s)
        starts == { i \in 1..Len(s) :
                      /\ i + 4 <= last
                      /\ SubSeq(s, i, i + 2) = <<SP, "N", "o">>
                      /\ \E d \in (i + 4)..last :
                            /\ AllSpace(s, i + 3, d - 1)
                            /\ \A k \in d..last : s[k] \in Digits }
    IN  IF starts = {} THEN s
        ELSE SubSeq(s, 1, Min(starts) - 1) \o DropTo(s, last + 1)

\* title.split(sep)[0]: the title up to the first occurrence of sep.
BeforeFirst(s, sep) ==
    LET at == { i \in 1..(Len(s) - Len(sep) + 1) : SubSeq(s, i, i + Len(sep) - 1) = sep }
    IN  IF at = {} THEN s ELSE SubSeq(s, 1, Min(at) - 1)

\* re.sub(r'\s+', ' ', title)
RECURSIVE SubSpaces(_)
SubSpaces(s) ==
    IF s = <<>> THEN <<>>
    ELSE IF IsSpace(Head(s))
    THEN LET rest == { k \in 1..Len(s) : ~IsSpace(s[k]) }
         IN  <<SP>> \o (IF rest = {} THEN <<>> ELSE SubSpaces(DropTo(s, Min(rest))))
    ELSE <<Head(s)>> \o SubSpaces(Tail(s))

\* title.split(): the maximal runs of characters that are not whitespace.
RECURSIVE Split(_)
Split(s) ==
    IF s = <<>> THEN <<>>
    ELSE IF IsSpace(Head(s)) THEN Split(Tail(s))
    ELSE LET spaces == { k \in 1..Len(s) : IsSpace(s[k]) }
         IN  IF spaces = {} THEN <<s>>
             ELSE <<SubSeq(s, 1, Min(spaces) - 1)>> \o Split(DropTo(s, Min(spaces)))

\* ' '.join(words)
RECURSIVE Join(_)
Join(words) ==
    IF words = <<>> THEN <<>>
    ELSE IF Len(words) = 1 THEN words[1]
    ELSE words[1] \o <<SP>> \o Join(Tail(words))

\* format_citation without the test of the type: every title is formatted as
\* legislation is.
format_citation_any_type(t, type, jurisdiction) ==
    LET t1 == SubTrailingNo(Unescape(t))
    IN  IF jurisdiction \notin DOMAIN JURISDICTIONS THEN ValueError
        ELSE LET abbr == <<"(">> \o JURISDICTIONS[jurisdiction] \o <<")">>
             IN  Join(Split(SubSpaces(BeforeFirst(t1, abbr) \o <<SP>> \o abbr)))

\* format_citation(title, type, jurisdiction): the citation, or ValueError when
\* the jurisdiction of legislation has no abbreviation.
\* A format_citation that leaves the title of a jurisdiction it does not know
\* without an abbreviation.
format_citation_unmapped_kept(t, type, jurisdiction) ==
    LET t0 == Unescape(t)
    IN  IF type # "decision" /\ jurisdiction \in DOMAIN JURISDICTIONS
        THEN LET abbr == <<"(">> \o JURISDICTIONS[jurisdiction] \o <<")">>
             IN  Join(Split(SubSpaces(BeforeFirst(SubTrailingNo(t0), abbr)
                                      \o <<SP>> \o abbr)))
        ELSE Join(Split(SubSpaces(t0)))

format_citation(t, type, jurisdiction) ==
    LET t0 == Unescape(t)
    IN  IF type # "decision"
        THEN LET t1 == SubTrailingNo(t0)
             IN  IF jurisdiction \notin DOMAIN JURISDICTIONS THEN ValueError
                 ELSE LET abbr == <<"(">> \o JURISDICTIONS[jurisdiction] \o <<")">>
                          t2 == BeforeFirst(t1, abbr)
                          t3 == t2 \o <<SP>> \o abbr
                      IN  Join(Split(SubSpaces(t3)))
        ELSE Join(Split(SubSpaces(t0)))

-----------------------------------------------------------------------------
(* data.py: Document, Section, make_doc, make_section *)

\* What a call returns or raises is a record with the class of the value: None,
\* an exception, or a Struct with its fields.
ReturnNone == [class |-> "NoneType"]
Raise(exception) == [class |-> exception[1]]

\* The characters of the model that the class \W matches: neither a letter, nor
\* a digit, nor the underscore.
NonWord ==
    Whitespace \cup {"(", ")", "&", ";", "<", "#", ":", "/", BSL,
                     "U+2248", "U+21A6", "U+2213", "U+00B1"}

\* re.sub(r'\W', '', text)
SubNonWord(s) == SelectSeq(s, LAMBDA c : c \notin NonWord)

\* The shortest text, stripped by SubNonWord, for which a value is made.
MinStrippedLen == 9

\* The fields of the Structs.
DocumentFields ==
    {"version_id", "type", "jurisdiction", "source", "mime", "date", "citation",
     "url", "when_scraped", "text", "other"}

SectionFields ==
    {"id", "document_id", "type", "number", "title", "text", "citation", "url",
     "when_scraped"}

\* Struct(**kwargs) of msgspec for a Struct with the fields given, those of
\* optional the ones with a default of None: a keyword that is no field, or a
\* field without default left out, raises TypeError.
NewStruct(class, fields, optional, kwargs) ==
    IF /\ DOMAIN kwargs \subseteq fields
       /\ fields \ optional \subseteq DOMAIN kwargs
    THEN [f \in fields \cup {"class"} |->
            IF f = "class" THEN class
            ELSE IF f \in DOMAIN kwargs THEN kwargs[f] ELSE None]
    ELSE Raise(TypeError)

\* make_doc(version_id, type, jurisdiction, source, mime, date, citation, url,
\* text), called when the clock reads now.
make_doc(version_id, type, jurisdiction, source, mime, date, cite, url, txt, now) ==
    LET c == format_citation(cite, type, jurisdiction)
        t == clean_text(txt)
    IN  IF c = ValueError THEN Raise(ValueError)
        ELSE IF Len(SubNonWord(t)) < MinStrippedLen THEN ReturnNone
        ELSE NewStruct("Document", DocumentFields, {"other"},
                       [version_id |-> version_id, type |-> type,
                        jurisdiction |-> jurisdiction, source |-> source,
                        mime |-> mime, date |-> date, citation |-> c, url |-> url,
                        when_scraped |-> now, text |-> t])

\* make_section(version_id, jurisdiction, type, number, title, citation, url,
\* text), called when the clock reads now.
make_section(version_id, jurisdiction, type, number, ttl, cite, url, txt, now) ==
    LET c == format_citation(cite, type, jurisdiction)
        t == clean_text(txt)
    IN  IF c = ValueError THEN Raise(ValueError)
        ELSE IF Len(SubNonWord(t)) < MinStrippedLen THEN ReturnNone
        ELSE NewStruct("Section", SectionFields, {},
                       [id |-> version_id \o <<"/">> \o c,
                        document_id |-> version_id, type |-> type,
                        jurisdiction |-> jurisdiction, title |-> ttl,
                        number |-> number, citation |-> c, url |-> url,
                        when_scraped |-> now, text |-> t])

-----------------------------------------------------------------------------
(* The make_doc component: a caller builds a text from pieces and makes a
   Document or a Section of it. *)

MaxDocPieces == 4

DocPieces ==
    { <<"a">>, <<"1">>, <<SP>>, <<LF>>, <<"a", "b", "c", "d">>,
      <<"1", "2", "3", "4">> }

DocTypes == {"decision", "primary_legislation"}
DocJurisdictions == {"northern_territory", "new_zealand"}
DocCitations == { <<"A", SP, "N", "o", SP, "4">>, <<"A", LF, "B">> }
Clock == {"2024-06-01T09:00:00+10:00", "2024-06-01T09:00:01+10:00"}

\* The arguments that the normaliser hands on as they are.
DocVersionId == <<"s", ":", "v">>
DocSource == "vic_legislation"
DocMime == "text/html"
DocDate == "2024-05-31"
DocUrl == "https://legislation.example/v"
DocNumber == "12"
DocTitle == "Short title"

DocInit == DocIdle /\ TextIdle /\ ReqIdle /\ CiteIdle /\ EntryIdle /\ FanIdle /\ ScrapeIdle /\ MoreIdle

DocAppend(piece) ==
    /\ docCall.function = None
    /\ Len(docText) < MaxDocPieces
    /\ docText' = Append(docText, piece)
    /\ UNCHANGED <<docCall, docResult, textVars, reqVars, citeVars, entryVars, fanVars, scrapeVars, moreVars>>

MakeDoc(type, jurisdiction, cite, now) ==
    /\ docCall.function = None
    /\ docCall' = [function |-> "make_doc", type |-> type,
                   jurisdiction |-> jurisdiction, citation |-> cite]
    /\ docResult' = make_doc(DocVersionId, type, jurisdiction, DocSource, DocMime,
                             DocDate, cite, DocUrl, Flatten(docText), now)
    /\ UNCHANGED <<docText, textVars, reqVars, citeVars, entryVars, fanVars, scrapeVars, moreVars>>

MakeSection(type, jurisdiction, cite, now) ==
    /\ docCall.function = None
    /\ docCall' = [function |-> "make_section", type |-> type,
                   jurisdiction |-> jurisdiction, citation |-> cite]
    /\ docResult' = make_section(DocVersionId, jurisdiction, type, DocNumber,
                                 DocTitle, cite, DocUrl, Flatten(docText), now)
    /\ UNCHANGED <<docText, textVars, reqVars, citeVars, entryVars, fanVars, scrapeVars, moreVars>>

DocNext ==
    \/ \E piece \in DocPieces : DocAppend(piece)
    \/ \E type \in DocTypes, jurisdiction \in DocJurisdictions,
          cite \in DocCitations, now \in Clock :
           \/ MakeDoc(type, jurisdiction, cite, now)
           \/ MakeSection(type, jurisdiction, cite, now)

SpecDoc == DocInit /\ [][DocNext]_vars

-----------------------------------------------------------------------------
(* data.py: Entry *)

\* A format_id that prefixes the version id whatever it starts with.
format_id_always(version_id, source) == source \o <<":">> \o version_id

\* Entry.format_id(version_id, source): version_id when its first len(source) + 1
\* characters are the source and a colon, else the two joined by a colon.
format_id(version_id, source) ==
    IF SubSeq(version_id, 1, IF Len(source) + 1 <= Len(version_id)
                             THEN Len(source) + 1 ELSE Len(version_id))
       = source \o <<":">>
    THEN version_id
    ELSE source \o <<":">> \o version_id

\* Entry.__post_init__: the version id is formatted.
EntryPostInit(e) == [e EXCEPT !.version_id = format_id(e.version_id, e.source)]

\* Entry(request, version_id, source, type, jurisdiction, date, title)
Entry(request, version_id, source, type, jurisdiction, date, ttl) ==
    EntryPostInit([class |-> "Entry", request |-> request, version_id |-> version_id,
                   source |-> source, type |-> type, jurisdiction |-> jurisdiction,
                   date |-> date, title |-> ttl, other |-> None])

-----------------------------------------------------------------------------
(* The Entry component: a caller builds a version id, constructs an Entry for a
   source, and constructs it again from its fields, as decoding a stored Entry
   does. *)

MaxIdLen == 4

IdChars == {"q", "c", ":", "7"}

\* The sources, written short: "q" and "qc", of which one begins the other.
Sources == { <<"q">>, <<"q", "c">> }

EntryRequest == Request("/doc", "get", FrozenDict(<<>>), FrozenDict(<<>>), "utf-8", FALSE)

EntryInit == EntryIdle /\ TextIdle /\ ReqIdle /\ CiteIdle /\ DocIdle /\ FanIdle /\ ScrapeIdle /\ MoreIdle

IdAppend(c) ==
    /\ entry.class = "NoneType"
    /\ Len(entryId) < MaxIdLen
    /\ entryId' = Append(entryId, c)
    /\ UNCHANGED <<entry, entryCopy, textVars, reqVars, citeVars, docVars, fanVars, scrapeVars, moreVars>>

NewEntry(source) ==
    /\ entry.class = "NoneType"
    /\ entry' = Entry(EntryRequest, entryId, source, "decision", "queensland",
                      None, <<"A">>)
    /\ UNCHANGED <<entryId, entryCopy, textVars, reqVars, citeVars, docVars, fanVars, scrapeVars, moreVars>>

CopyEntry ==
    /\ entry.class = "Entry"
    /\ entryCopy.class = "NoneType"
    /\ entryCopy' = Entry(entry.request, entry.version_id, entry.source, entry.type,
                          entry.jurisdiction, entry.date, entry.title)
    /\ UNCHANGED <<entryId, entry, textVars, reqVars, citeVars, docVars, fanVars, scrapeVars, moreVars>>

EntryNext ==
    \/ \E c \in IdChars : IdAppend(c)
    \/ \E source \in Sources : NewEntry(source)
    \/ CopyEntry

SpecEntry == EntryInit /\ [][EntryNext]_vars

-----------------------------------------------------------------------------
(* helpers.py: alive_gather; scrapers: the asyncio.gather of get_index *)

Exception == "Exception"

\* A fan-out that cancels the tasks still pending once one of them has raised.
SiblingsCancelledOnRaise(tasks) ==
    [i \in DOMAIN tasks |-> IF tasks[i] = "pending" THEN "cancelled" ELSE tasks[i]]

\* The tasks of a fan-out once one of them has raised, as asyncio.as_completed
\* and asyncio.gather leave them: untouched.
SiblingsOnRaise(tasks) == tasks

\* sorted(res) for (index, result) pairs with distinct indices: by index, the
\* results never compared.
SortedByIndex(res) ==
    LET at(k) == CHOOSE p \in DOMAIN res :
                    Cardinality({ q \in DOMAIN res : res[q][1] < res[p][1] }) = k - 1
    IN  [k \in DOMAIN res |-> res[at(k)]]

\* [r for _, r in pairs]
Results(pairs) == [k \in DOMAIN pairs |-> pairs[k][2]]

\* An alive_gather that returns the results as they were taken.
alive_gather_return_unsorted(res) == Results(res)

\* alive_gather, its last line: the results sorted by index.
alive_gather_return(res) == Results(SortedByIndex(res))

-----------------------------------------------------------------------------
(* The fan-out component: alive_gather, or the asyncio.gather over
   _get_entry of get_index, started over NumTasks awaitables, each of which will
   return a value or raise. *)

NumTasks == 3

Tasks == 1..NumTasks

TaskValues == {"r1", "r2"}

FanInit ==
    /\ fanKind \in {"alive_gather", "gather"}
    /\ fanOutcome \in [Tasks -> TaskValues \cup {Exception}]
    /\ fanTask = [i \in Tasks |-> "pending"]
    /\ fanOrder = <<>>
    /\ fanRes = <<>>
    /\ fanBar = 0
    /\ fanPc = "awaiting"
    /\ fanResult = <<>>
    /\ TextIdle /\ ReqIdle /\ CiteIdle /\ DocIdle /\ EntryIdle /\ ScrapeIdle /\ MoreIdle

FanFinished == { fanOrder[k] : k \in DOMAIN fanOrder }

\* asyncio.gather, the callback on a child that is done: the first exception is
\* handed to the awaiting caller at once, and the results, in the order of the
\* arguments, when the last child is done.
GatherChildDone(i, tasks) ==
    IF fanKind # "gather" \/ fanPc # "awaiting"
    THEN /\ fanTask' = tasks
         /\ UNCHANGED <<fanPc, fanResult>>
    ELSE IF fanOutcome[i] = Exception
    THEN /\ fanPc' = "raised"
         /\ fanTask' = SiblingsOnRaise(tasks)
         /\ UNCHANGED fanResult
    ELSE IF FanFinished \cup {i} = Tasks
    THEN /\ fanPc' = "returned"
         /\ fanResult' = [k \in Tasks |-> fanOutcome[k]]
         /\ fanTask' = tasks
    ELSE /\ fanTask' = tasks
         /\ UNCHANGED <<fanPc, fanResult>>

\* The awaitable i returns: in alive_gather its wrapper updates the progress bar
\* and returns (i, result).
TaskReturn(i) ==
    /\ fanTask[i] = "pending"
    /\ fanOutcome[i] # Exception
    /\ fanOrder' = Append(fanOrder, i)
    /\ fanBar' = IF fanKind = "alive_gather" THEN fanBar + 1 ELSE fanBar
    /\ GatherChildDone(i, [fanTask EXCEPT ![i] = "done"])
    /\ UNCHANGED <<fanKind, fanOutcome, fanRes>>
    /\ UNCHANGED <<textVars, reqVars, citeVars, docVars, entryVars, scrapeVars, moreVars>>

\* The awaitable i raises: in alive_gather its wrapper raises with it.
TaskRaise(i) ==
    /\ fanTask[i] = "pending"
    /\ fanOutcome[i] = Exception
    /\ fanOrder' = Append(fanOrder, i)
    /\ GatherChildDone(i, [fanTask EXCEPT ![i] = "failed"])
    /\ UNCHANGED <<fanKind, fanOutcome, fanRes, fanBar>>
    /\ UNCHANGED <<textVars, reqVars, citeVars, docVars, entryVars, scrapeVars, moreVars>>

\* alive_gather awaits the next future of as_completed: the result of the task
\* that finished next is appended to res, or its exception leaves alive_gather.
AliveGatherTake ==
    /\ fanKind = "alive_gather"
    /\ fanPc = "awaiting"
    /\ Len(fanRes) < Len(fanOrder)
    /\ LET i == fanOrder[Len(fanRes) + 1]
       IN  IF fanOutcome[i] = Exception
           THEN /\ fanPc' = "raised"
                /\ fanTask' = SiblingsOnRaise(fanTask)
                /\ UNCHANGED fanRes
           ELSE /\ fanRes' = Append(fanRes, <<i, fanOutcome[i]>>)
                /\ UNCHANGED <<fanPc, fanTask>>
    /\ UNCHANGED <<fanKind, fanOutcome, fanOrder, fanBar, fanResult>>
    /\ UNCHANGED <<textVars, reqVars, citeVars, docVars, entryVars, scrapeVars, moreVars>>

\* alive_gather has taken every result: it returns them sorted by index.
AliveGatherReturn ==
    /\ fanKind = "alive_gather"
    /\ fanPc = "awaiting"
    /\ Len(fanRes) = NumTasks
    /\ fanPc' = "returned"
    /\ fanResult' = alive_gather_return(fanRes)
    /\ UNCHANGED <<fanKind, fanOutcome, fanTask, fanOrder, fanRes, fanBar>>
    /\ UNCHANGED <<textVars, reqVars, citeVars, docVars, entryVars, scrapeVars, moreVars>>

FanNext ==
    \/ \E i \in Tasks : TaskReturn(i)
    \/ \E i \in Tasks : TaskRaise(i)
    \/ AliveGatherTake
    \/ AliveGatherReturn

SpecFan == FanInit /\ [][FanNext]_vars

\* The event loop runs every task that can take a step.
FanFairness ==
    /\ \A i \in Tasks : WF_vars(TaskReturn(i)) /\ WF_vars(TaskRaise(i))
    /\ WF_vars(AliveGatherTake)
    /\ WF_vars(AliveGatherReturn)

SpecFanFair == FanInit /\ [][FanNext]_vars /\ FanFairness

-----------------------------------------------------------------------------
(* data.py: Response; scrapers: _get_doc of VicLegislation and of
   QueenslandCaselaw *)

UnicodeDecodeError == <<"UnicodeDecodeError">>
IndexError == <<"IndexError">>

\* The classes of the exceptions that the calls of the model raise.
ExceptionClasses ==
    {"ValueError", "TypeError", "UnicodeDecodeError", "IndexError", "AttributeError",
     "KeyError", "JSONDecodeError", Exception}

\* What the scrapers look for in the text of a response.
NoFragments == "No fragments found."
ViewWhole == "<span id='view-whole'>"
PublicationDate == "publication.date='2024-05-30'"
VicElements == {"div#frag-col", "div#fragToolbar", "div.nav-result"}
QldElements == {"div#fragview"}

\* Response(body, encoding = ..., type = ..., status = ...), the body given by
\* whether its bytes decode in the encoding, by what of the above its text
\* contains and by the text that Inscriptis extracts from its elements.
Response(decodes, contains, inner, type, status) ==
    [class |-> "Response", decodes |-> decodes, contains |-> contains,
     inner |-> inner, type |-> type, status |-> status]

\* Response.text: self.decode(self.encoding)
ResponseText(resp) ==
    IF resp.decodes
    THEN [class |-> "str", contains |-> resp.contains, inner |-> resp.inner]
    ELSE Raise(UnicodeDecodeError)

\* A call of _get_doc(entry) of a scraper, as it awaits self.get(entry.request).
GetDoc(scraper, e) ==
    [scraper |-> scraper, entry |-> e, pc |-> "get", resp |-> ReturnNone,
     date |-> e.date, url |-> e.request.path, fetched |-> <<e.request>>,
     ocr |-> 0, made |-> 0, warnings |-> <<>>, result |-> [class |-> "pending"]]

\* warning(...)
Warn(c, message) == [c EXCEPT !.warnings = Append(@, message)]

\* The call returns a value, or raises.
Return(c, value) == [c EXCEPT !.pc = "done", !.result = value]

\* helpers.py, log, the wrapper of a coroutine: an exception of the call is
\* given as a warning and raised again.
log(c) ==
    IF c.pc = "done" /\ c.result.class \in ExceptionClasses
    THEN Warn(c, "log")
    ELSE c

\* return make_doc(...) of _get_doc
ReturnMakeDoc(c, mime, url, txt, now) ==
    LET doc == make_doc(c.entry.version_id, c.entry.type, c.entry.jurisdiction,
                        c.entry.source, mime, c.date, c.entry.title, url, txt, now)
        made == [c EXCEPT !.made = @ + 1]
    IN  Return(IF doc.class = "NoneType" THEN Warn(made, "make_doc") ELSE made, doc)

\* VicLegislation._get_doc from the response of self.get to the await of pdf2txt
\* or the end.
VicGetDocResponse(c, resp, now) ==
    LET got == [c EXCEPT !.resp = resp]
        txt == ResponseText(resp)
    IN  IF resp.status = 404 THEN Return(Warn(got, "404"), ReturnNone)
        ELSE IF resp.type = "text/html"
        THEN IF txt.class # "str" THEN Return(got, txt)
             ELSE IF NoFragments \in txt.contains
             THEN Return(Warn(got, NoFragments), ReturnNone)
             ELSE IF ~(VicElements \subseteq txt.contains)
             THEN Return(got, Raise(IndexError))
             ELSE ReturnMakeDoc(got, resp.type, c.entry.request.path, txt.inner, now)
        ELSE IF resp.type = "application/pdf"
        THEN [got EXCEPT !.pc = "pdf2txt", !.ocr = @ + 1]
        ELSE Return(got, Raise(ValueError))

\* QueenslandCaselaw._get_doc from the response of self.get to the await of the
\* second self.get or the end.
QldGetDocResponse(c, resp, now) ==
    LET txt == ResponseText(resp)
        date == IF c.date = None /\ txt.class = "str"
                   /\ PublicationDate \in txt.contains
                THEN "2024-05-30"
                ELSE c.date
        got == [c EXCEPT !.resp = resp, !.date = date]
        url == Replace(c.entry.request.path, <<"h", "t", "m", "l">>, <<"p", "d", "f">>)
    IN  IF c.date = None /\ txt.class # "str" THEN Return(got, txt)
        ELSE IF resp.status = 404 THEN Return(Warn(got, "404"), ReturnNone)
        ELSE IF txt.class # "str" THEN Return(got, txt)
        ELSE IF ViewWhole \notin txt.contains
        THEN [got EXCEPT !.pc = "get", !.url = url,
                         !.fetched = Append(@, Request(url, "get", FrozenDict(<<>>),
                                                       FrozenDict(<<>>), "utf-8", FALSE))]
        ELSE IF ~(QldElements \subseteq txt.contains)
        THEN Return(got, Raise(IndexError))
        ELSE ReturnMakeDoc(got, "text/html", c.entry.request.path, txt.inner, now)

\* QueenslandCaselaw._get_doc from the response of the second self.get to the
\* await of pdf2txt over its stream.
QldGetPdfResponse(c) == [c EXCEPT !.pc = "pdf2txt", !.ocr = @ + 1]

\* A _get_doc whose path over the PDF forgets the date.
GetDocPdfTextUndated(c, txt, now) ==
    LET undated == [c EXCEPT !.date = None]
    IN  IF c.scraper = "vic_legislation"
        THEN ReturnMakeDoc(undated, c.resp.type, c.entry.request.path, txt, now)
        ELSE ReturnMakeDoc(undated, "application/pdf", c.url, txt, now)

\* _get_doc from the text that pdf2txt returns to the end.
GetDocPdfText(c, txt, now) ==
    IF c.scraper = "vic_legislation"
    THEN ReturnMakeDoc(c, c.resp.type, c.entry.request.path, txt, now)
    ELSE ReturnMakeDoc(c, "application/pdf", c.url, txt, now)

-----------------------------------------------------------------------------
(* The scraper component: NumEntries calls of _get_doc run concurrently, each
   for an Entry of its scraper; the server answers each fetch with one of
   Responses, and pdf2txt returns a text or raises. *)

NumEntries == 2

\* A text that make_doc keeps and one that it drops.
LongText == <<"a", "b", "c", "d", SP, "a", "b", "c", "d", "a">>
ShortText == <<"a", "b", "c", "d">>

ScrapePath == <<"/", "h", "t", "m", "l", "/", "7">>
ScrapeRequest == Request(ScrapePath, "get", FrozenDict(<<>>), FrozenDict(<<>>), "utf-8", FALSE)

\* The entries: of Victoria with and without a date, of Queensland a decision
\* with its date and a bill, which _get_entry gives none.
ScrapeEntries ==
    { Entry(ScrapeRequest, <<"7">>, <<"v">>, "primary_legislation", "victoria", date,
            <<"A">>) : date \in {None, DocDate} }
    \cup { Entry(ScrapeRequest, <<"7">>, <<"q">>, "decision", "queensland", DocDate, <<"A">>),
           Entry(ScrapeRequest, <<"7">>, <<"q">>, "bill", "queensland", None, <<"A">>) }

ScraperOf(e) == IF e.jurisdiction = "victoria" THEN "vic_legislation" ELSE "queensland_caselaw"

\* The responses of a server for a page that is missing, with a body of text or
\* of bytes that do not decode, and for a page of a type the scrapers do not
\* handle, or whose bytes do not decode.
CommonResponses ==
    { Response(d, {}, <<>>, "text/html", 404) : d \in BOOLEAN }
    \cup { Response(TRUE, {}, <<>>, "text/plain", 404),
           Response(FALSE, {}, <<>>, "text/html", 200),
           Response(FALSE, {}, <<>>, "application/pdf", 200),
           Response(TRUE, {}, <<>>, "text/plain", 200) }

\* The responses of the server of each scraper: its pages with and without the
\* elements that the scraper selects.
Responses(scraper) ==
    IF scraper = "vic_legislation"
    THEN CommonResponses
         \cup { Response(TRUE, {NoFragments}, <<>>, "text/html", 200),
                Response(TRUE, VicElements, LongText, "text/html", 200),
                Response(TRUE, VicElements, ShortText, "text/html", 200),
                Response(TRUE, {}, <<>>, "text/html", 200) }
    ELSE CommonResponses
         \cup { Response(TRUE, {ViewWhole, PublicationDate} \cup QldElements, LongText,
                         "text/html", 200),
                Response(TRUE, {ViewWhole}, <<>>, "text/html", 200),
                Response(TRUE, {PublicationDate}, <<>>, "text/html", 200),
                Response(TRUE, {}, <<>>, "text/html", 200) }

ScrapeInit ==
    /\ calls \in [1..NumEntries -> { GetDoc(ScraperOf(e), e) : e \in ScrapeEntries }]
    /\ TextIdle /\ ReqIdle /\ CiteIdle /\ DocIdle /\ EntryIdle /\ FanIdle /\ MoreIdle

\* The fetch of the entry's request is answered.
VicGetDoc(i, resp, now) ==
    /\ i \in DOMAIN calls
    /\ calls[i].scraper = "vic_legislation"
    /\ calls[i].pc = "get"
    /\ calls' = [calls EXCEPT ![i] = log(VicGetDocResponse(@, resp, now))]
    /\ UNCHANGED <<textVars, reqVars, citeVars, docVars, entryVars, fanVars, moreVars>>

QldGetDoc(i, resp, now) ==
    /\ i \in DOMAIN calls
    /\ calls[i].scraper = "queensland_caselaw"
    /\ calls[i].pc = "get"
    /\ Len(calls[i].fetched) = 1
    /\ calls' = [calls EXCEPT ![i] = log(QldGetDocResponse(@, resp, now))]
    /\ UNCHANGED <<textVars, reqVars, citeVars, docVars, entryVars, fanVars, moreVars>>

\* The fetch of the PDF is answered.
QldGetPdf(i) ==
    /\ i \in DOMAIN calls
    /\ calls[i].scraper = "queensland_caselaw"
    /\ calls[i].pc = "get"
    /\ Len(calls[i].fetched) = 2
    /\ calls' = [calls EXCEPT ![i] = log(QldGetPdfResponse(@))]
    /\ UNCHANGED <<textVars, reqVars, citeVars, docVars, entryVars, fanVars, moreVars>>

\* pdf2txt returns the text of the PDF.
Pdf2TxtReturn(i, txt, now) ==
    /\ i \in DOMAIN calls
    /\ calls[i].pc = "pdf2txt"
    /\ calls' = [calls EXCEPT ![i] = log(GetDocPdfText(@, txt, now))]
    /\ UNCHANGED <<textVars, reqVars, citeVars, docVars, entryVars, fanVars, moreVars>>

\* pdf2txt raises.
Pdf2TxtRaise(i) ==
    /\ i \in DOMAIN calls
    /\ calls[i].pc = "pdf2txt"
    /\ calls' = [calls EXCEPT ![i] = log(Return(@, Raise(<<Exception>>)))]
    /\ UNCHANGED <<textVars, reqVars, citeVars, docVars, entryVars, fanVars, moreVars>>

ScrapeNext ==
    \/ \E i \in 1..NumEntries, now \in Clock :
           \/ \E resp \in Responses("vic_legislation") : VicGetDoc(i, resp, now)
           \/ \E resp \in Responses("queensland_caselaw") : QldGetDoc(i, resp, now)
    \/ \E i \in 1..NumEntries : QldGetPdf(i)
    \/ \E i \in 1..NumEntries, txt \in {LongText, ShortText}, now \in Clock :
           Pdf2TxtReturn(i, txt, now)
    \/ \E i \in 1..NumEntries : Pdf2TxtRaise(i)

SpecScrape == ScrapeInit /\ [][ScrapeNext]_vars

\* Two calls of _get_doc for one Entry, each free to take either path.
PathsInit ==
    /\ calls \in { <<GetDoc(ScraperOf(e), e), GetDoc(ScraperOf(e), e)>> : e \in ScrapeEntries }
    /\ TextIdle /\ ReqIdle /\ CiteIdle /\ DocIdle /\ EntryIdle /\ FanIdle /\ MoreIdle

SpecPaths == PathsInit /\ [][ScrapeNext]_vars

-----------------------------------------------------------------------------
(* scrapers: get_index_reqs, get_index and _get_entry of VicLegislation and of
   QueenslandCaselaw. A path is written as the sequence of its parts. *)

AttributeError == <<"AttributeError">>
KeyError == <<"KeyError">>

\* A set that a call returns.
ReturnSet(items) == [class |-> "set", items |-> items]

\* Request(path), the other fields at their defaults.
RequestOf(path) == Request(path, "get", FrozenDict(<<>>), FrozenDict(<<>>), "utf-8", FALSE)

\* The response for a page of a listing: whether its bytes decode, its tags, and
\* the (path, title) pairs of the links to documents in it.
IndexPage(decodes, tags, links) ==
    [class |-> "Response", decodes |-> decodes, tags |-> tags, links |-> links,
     type |-> "text/html", status |-> 200]

Tag(name, txt) == [class |-> "Tag", name |-> name, text |-> txt]

\* Response.html: BeautifulSoup(self.text, "lxml")
ResponseHtml(resp) ==
    IF resp.decodes
    THEN [class |-> "BeautifulSoup", tags |-> resp.tags]
    ELSE Raise(UnicodeDecodeError)

\* BeautifulSoup.find(name): the first tag of that name, or None.
SoupFind(soup, name) ==
    LET found == { k \in DOMAIN soup.tags : soup.tags[k].name = name }
    IN  IF found = {} THEN ReturnNone ELSE soup.tags[Min(found)]

\* The parts of the paths of the listings.
VicBase == "https://www.legislation.vic.gov.au"
QldCasela == "https://www.queenslandjudgments.com.au/casela"

\* VicLegislation.get_index_reqs: the two listings.
VicIndexReqs ==
    { RequestOf(<<VicBase, "/in-force/", instrument, "?page=", "0">>) :
        instrument \in {"acts", "statutory-rules"} }

\* QueenslandCaselaw.get_index_reqs awaits the listing, fetched with Selenium.
QldIndexUrl == <<QldCasela, "w">>
QldIndexReqsFetch == Request(QldIndexUrl, "get", FrozenDict(<<>>), FrozenDict(<<>>), "utf-8", TRUE)

\* The Request of the page i of the listing of Queensland.
QldPageRequest(i) == RequestOf(<<QldCasela, "w", "?", "page=", i>>)

\* QueenslandCaselaw.get_index_reqs from the response of self.get to its end:
\* find is given a CSS selector as the name of a tag; a tag that it found would
\* be asked for its attribute 0.
QldGetIndexReqsResponse(c, resp) ==
    LET got == [c EXCEPT !.resp = resp]
        html == ResponseHtml(resp)
        el == SoupFind(html, ".pagination a")
    IN  IF html.class # "BeautifulSoup" THEN Return(got, html)
        ELSE IF el.class = "NoneType" THEN Return(got, Raise(ValueError))
        ELSE Return(got, Raise(KeyError))

\* re.search(r'https://www.queenslandjudgments.com.au/caselaw?page=685', path):
\* the pattern has 'casela', an optional 'w' and 'page=685', and no group.
SearchPage685(path) ==
    \E k \in DOMAIN path :
        \/ StartsWith(DropTo(path, k), <<QldCasela, "w", "page=", "685">>)
        \/ StartsWith(DropTo(path, k), <<QldCasela, "page=", "685">>)

\* QueenslandCaselaw.get_index from its call to the await of self.get(req).
QldGetIndexCall(c, req) ==
    IF ~SearchPage685(req.path) THEN Return(c, Raise(AttributeError))
    ELSE Return(c, Raise(IndexError))

\* VicLegislation.get_index from its call to the await of self.get(req).
VicGetIndexCall(c, req) ==
    [c EXCEPT !.pc = "get", !.fetched = Append(@, req),
              !.type = IF \E k \in DOMAIN req.path : req.path[k] = "acts"
                       THEN "primary_legislation"
                       ELSE "secondary_legislation"]

\* What _get_entry looks for in the text of a status page.
PointInTime == "/search?pointInTime=2024-05-30&"
VicWhole == "https://legislation.nsw.gov.au/view/whole/html/inforce/"
VicStatus == "https://legislation.nsw.gov.au/view/html/inforce/current/"

\* path.split('/')[-1]
DocId(path) == path[Len(path)]

\* A call of VicLegislation._get_entry(path, title, type) up to its first await,
\* or to its end for a path that begins with 'asmade/'.
VicEntry(version_id, type, date, ttl) ==
    Entry(RequestOf(<<VicWhole>> \o version_id), version_id, <<"v">>, type,
          "victoria", date, ttl)

VicGetEntryCall(path, ttl, type) ==
    IF StartsWith(path, <<"asmade", "/">>)
    THEN [path |-> path, title |-> ttl, pc |-> "done",
          resp |-> ReturnNone, fetched |-> <<>>, warnings |-> <<>>,
          result |-> VicEntry(path, type, None, ttl)]
    ELSE [path |-> path, title |-> ttl, pc |-> "get",
          resp |-> ReturnNone, fetched |-> << <<VicStatus, DocId(path)>> >>,
          warnings |-> <<>>,
          result |-> [class |-> "pending"]]

\* A _get_entry that looks at the content type before the status.
VicGetEntryResponseTypeFirst(c, type, resp, today) ==
    LET got == [c EXCEPT !.resp = resp]
    IN  IF resp.type \notin {"text/html", "application/pdf"}
        THEN Return(got, Raise(ValueError))
        ELSE IF resp.status = 404 THEN Return(Warn(got, "404"), ReturnNone)
        ELSE Return(got, VicEntry(<<today, "/", DocId(c.path)>>, type, None, c.title))

\* VicLegislation._get_entry from the response for the status page to its end.
VicGetEntryResponse(c, type, resp, today) ==
    LET got == [c EXCEPT !.resp = resp]
        txt == ResponseText(resp)
    IN  IF resp.status = 404 THEN Return(Warn(got, "404"), ReturnNone)
        ELSE IF resp.type = "text/html"
        THEN IF txt.class # "str" THEN Return(got, txt)
             ELSE IF PointInTime \notin txt.contains
             THEN Return(got, Raise(AttributeError))
             ELSE Return(got, VicEntry(<<"2024-05-30", "/", DocId(c.path)>>, type,
                                       "2024-05-30", c.title))
        ELSE IF resp.type = "application/pdf"
        THEN Return(got, VicEntry(<<today, "/", DocId(c.path)>>, type, None, c.title))
        ELSE Return(got, Raise(ValueError))

\* asyncio.gather over the calls of _get_entry, and the rest of get_index: the
\* first exception of a child leaves get_index, and when every child is done
\* VicLegislation.get_index returns the set of the entries that are not None.
GetIndexGathered(c) ==
    LET raised == { k \in DOMAIN c.children :
                      c.children[k].result.class \in ExceptionClasses }
        done == { k \in DOMAIN c.children : c.children[k].pc = "done" }
    IN  IF c.pc # "gather" THEN c
        ELSE IF raised # {}
        THEN Return(c, c.children[CHOOSE k \in raised : TRUE].result)
        ELSE IF done = DOMAIN c.children
        THEN Return(c, ReturnSet({ c.children[k].result : k \in
                                     { j \in done : c.children[j].result.class = "Entry" } }))
        ELSE c

\* get_index from the response of self.get(req) to the await of the gather, or
\* to its end.
GetIndexResponse(c, resp) ==
    IF ~resp.decodes THEN Return([c EXCEPT !.resp = resp], Raise(UnicodeDecodeError))
    ELSE GetIndexGathered(
            [c EXCEPT !.pc = "gather", !.resp = resp,
                      !.children = [k \in DOMAIN resp.links |->
                                       VicGetEntryCall(resp.links[k][1],
                                                       resp.links[k][2], c.type)]])

-----------------------------------------------------------------------------
(* The index component: the engine calls get_index_reqs of a scraper and then
   get_index for a Request of a listing; the server answers the fetch of the
   listing and, for each link in it, the fetch of the status page. *)

MaxLinks == 2

Scrapers == {"vic_legislation", "queensland_caselaw"}

\* The day that the clock of _get_entry reads.
Today == "2024-06-01"

\* The listing of Queensland with its pagination and without, and one whose
\* bytes do not decode.
QldListings ==
    { IndexPage(TRUE, <<Tag("ul", <<>>), Tag("a", <<"1", "2">>)>>, <<>>),
      IndexPage(TRUE, <<Tag("div", <<>>)>>, <<>>),
      IndexPage(FALSE, <<>>, <<>>) }

\* The Requests that get_index is called with: of Victoria those of
\* get_index_reqs, of Queensland those of the pages of the listing and one whose
\* path has no question mark.
IndexRequests(scraper) ==
    IF scraper = "vic_legislation"
    THEN VicIndexReqs
    ELSE { QldPageRequest(i) : i \in {"1", "2", "685"} }
         \cup { RequestOf(<<QldCasela, "w", "page=", "685">>) }

\* The links of a listing of Victoria, each a path and a title.
IndexLinks ==
    { << <<"asmade", "/", "act-1">>, <<"A">> >>,
      << <<"inforce", "/", "act-2">>, <<"B">> >> }

LinkSeqs(n) == UNION { [1..k -> IndexLinks] : k \in 0..n }

VicListings ==
    { IndexPage(TRUE, <<>>, links) : links \in LinkSeqs(MaxLinks) }
    \cup { IndexPage(FALSE, <<>>, <<>>) }

\* The responses for a status page.
StatusResponses ==
    { Response(TRUE, {}, <<>>, "text/html", 404),
      Response(TRUE, {}, <<>>, "text/plain", 404),
      Response(TRUE, {PointInTime}, <<>>, "text/html", 200),
      Response(TRUE, {}, <<>>, "text/html", 200),
      Response(FALSE, {}, <<>>, "text/html", 200),
      Response(FALSE, {}, <<>>, "application/pdf", 200),
      Response(TRUE, {}, <<>>, "text/plain", 200) }

IndexCall(scraper) ==
    [scraper |-> scraper, function |-> None, req |-> ReturnNone, type |-> None,
     resp |-> ReturnNone, pc |-> "idle", children |-> <<>>, fetched |-> <<>>, warnings |-> <<>>,
     result |-> [class |-> "pending"]]

OthersIdle ==
    TextIdle /\ ReqIdle /\ CiteIdle /\ DocIdle /\ EntryIdle /\ FanIdle /\ ScrapeIdle

otherVars == <<textVars, reqVars, citeVars, docVars, entryVars, fanVars, scrapeVars>>

IndexInit ==
    /\ index \in { IndexCall(scraper) : scraper \in Scrapers }
    /\ ResponseIdle /\ WrappedIdle /\ ConversionIdle /\ OthersIdle

\* The engine calls get_index_reqs.
CallGetIndexReqs ==
    /\ index.pc = "idle"
    /\ LET c == [index EXCEPT !.function = "get_index_reqs"]
       IN  index' = IF index.scraper = "vic_legislation"
                    THEN log(Return(c, ReturnSet(VicIndexReqs)))
                    ELSE [c EXCEPT !.pc = "get", !.fetched = <<QldIndexReqsFetch>>]
    /\ UNCHANGED <<response, wrapped, conversion, otherVars>>

\* The fetch of the listing by get_index_reqs is answered.
GetIndexReqsListing(resp) ==
    /\ index.function = "get_index_reqs"
    /\ index.pc = "get"
    /\ index' = log(QldGetIndexReqsResponse(index, resp))
    /\ UNCHANGED <<response, wrapped, conversion, otherVars>>

\* The engine calls get_index for a Request of a listing.
CallGetIndex(req) ==
    /\ \/ index.pc = "idle"
       \/ index.function = "get_index_reqs" /\ index.pc = "done"
    /\ req \in IndexRequests(index.scraper)
    /\ LET c == [IndexCall(index.scraper) EXCEPT !.function = "get_index", !.req = req]
       IN  index' = IF index.scraper = "vic_legislation"
                    THEN VicGetIndexCall(c, req)
                    ELSE log(QldGetIndexCall(c, req))
    /\ UNCHANGED <<response, wrapped, conversion, otherVars>>

\* The fetch of the listing by get_index is answered.
GetIndexListing(resp) ==
    /\ index.function = "get_index"
    /\ index.pc = "get"
    /\ index' = log(GetIndexResponse(index, resp))
    /\ UNCHANGED <<response, wrapped, conversion, otherVars>>

\* The fetch of a status page by a call of _get_entry is answered.
GetEntryStatus(k, resp) ==
    /\ index.function = "get_index"
    /\ k \in DOMAIN index.children
    /\ index.children[k].pc = "get"
    /\ LET child == log(VicGetEntryResponse(index.children[k], index.type, resp, Today))
           c == [index EXCEPT !.children[k] = child]
       IN  index' = IF index.pc = "gather" THEN log(GetIndexGathered(c)) ELSE c
    /\ UNCHANGED <<response, wrapped, conversion, otherVars>>

IndexNext ==
    \/ CallGetIndexReqs
    \/ \E resp \in QldListings : GetIndexReqsListing(resp)
    \/ \E req \in UNION { IndexRequests(scraper) : scraper \in Scrapers } :
           CallGetIndex(req)
    \/ \E resp \in VicListings : GetIndexListing(resp)
    \/ \E k \in 1..MaxLinks, resp \in StatusResponses : GetEntryStatus(k, resp)

SpecIndex == IndexInit /\ [][IndexNext]_vars

-----------------------------------------------------------------------------
(* The scrapers in the order of the engine: get_index_reqs, get_index, and then
   _get_doc for an Entry that get_index returned. *)

EngineInit ==
    /\ index \in { IndexCall(scraper) : scraper \in Scrapers }
    /\ calls = <<>>
    /\ ResponseIdle /\ WrappedIdle /\ ConversionIdle
    /\ TextIdle /\ ReqIdle /\ CiteIdle /\ DocIdle /\ EntryIdle /\ FanIdle

\* The engine calls _get_doc for an Entry of the set that get_index returned.
CallGetDoc(e) ==
    /\ index.function = "get_index"
    /\ index.pc = "done"
    /\ index.result.class = "set"
    /\ e \in index.result.items
    /\ calls = <<>>
    /\ calls' = <<GetDoc(index.scraper, e)>>
    /\ UNCHANGED <<textVars, reqVars, citeVars, docVars, entryVars, fanVars, moreVars>>

\* The entries that get_index can return in the model.
IndexedEntries ==
    { VicEntry(v, type, date, ttl) :
        v \in { link[1] : link \in IndexLinks }
              \cup { <<day, "/", DocId(link[1])>> :
                       day \in {"2024-05-30", Today}, link \in IndexLinks },
        type \in {"primary_legislation", "secondary_legislation"},
        date \in {None, "2024-05-30"},
        ttl \in { link[2] : link \in IndexLinks } }

EngineNext ==
    \/ IndexNext
    \/ \E e \in IndexedEntries : CallGetDoc(e)
    \/ \E resp \in Responses("vic_legislation"), now \in Clock : VicGetDoc(1, resp, now)
    \/ \E txt \in {LongText, ShortText}, now \in Clock : Pdf2TxtReturn(1, txt, now)
    \/ Pdf2TxtRaise(1)

SpecEngine == EngineInit /\ [][EngineNext]_vars

-----------------------------------------------------------------------------
(* data.py: Response, its derived views. An instance is its payload, whether
   the payload decodes in the encoding and parses as JSON, the values that
   cached_property has stored in its __dict__, and the objects made from it. *)

JSONDecodeError == <<"JSONDecodeError">>

Views == {"text", "html", "stream", "json"}

\* The class of the object that the getter of a view makes.
ViewClass(view) ==
    CASE view = "text" -> "str"
      [] view = "html" -> "BeautifulSoup"
      [] view = "stream" -> "BytesIO"
      [] view = "json" -> "dict"

\* Response(payload, encoding = ..., type = ..., status = ...), before any access.
ResponseInstance(payload, decodes, parses) ==
    [payload |-> payload, decodes |-> decodes, parses |-> parses,
     dict |-> [v \in {"text", "json"} |-> ReturnNone],
     made |-> [v \in Views |-> 0],
     objects |-> 0]

\* The getter of a view makes a new object: the instance after it, and the
\* object.
MakeObject(r, view) ==
    <<[r EXCEPT !.made[view] = @ + 1, !.objects = @ + 1],
      [class |-> ViewClass(view), id |-> r.objects + 1]>>

\* A property that is not cached: every access runs the getter.
property(r, view, got) == got

\* A cached_property that stores nothing.
cached_property_not_stored(r, view, got) == got

\* functools.cached_property: the value in the __dict__ of the instance when
\* there is one, else the getter's, which is stored unless the getter raised.
cached_property(r, view, got) ==
    IF r.dict[view] # ReturnNone THEN <<r, r.dict[view]>>
    ELSE IF got[2].class \in ExceptionClasses THEN got
    ELSE <<[got[1] EXCEPT !.dict[view] = got[2]], got[2]>>

\* Response.text
GetText(r) ==
    cached_property(r, "text",
                    IF r.decodes THEN MakeObject(r, "text")
                    ELSE <<r, Raise(UnicodeDecodeError)>>)

\* Response.html: BeautifulSoup(self.text, "lxml")
GetHtml(r) ==
    property(r, "html",
             LET txt == GetText(r)
             IN  IF txt[2].class \in ExceptionClasses THEN txt
                 ELSE MakeObject(txt[1], "html"))

\* Response.stream: BytesIO(self)
GetStream(r) == property(r, "stream", MakeObject(r, "stream"))

\* Response.json: orjson.loads(bytes(self))
GetJson(r) ==
    cached_property(r, "json",
                    IF r.parses THEN MakeObject(r, "json")
                    ELSE <<r, Raise(JSONDecodeError)>>)

GetView(r, view) ==
    CASE view = "text" -> GetText(r)
      [] view = "html" -> GetHtml(r)
      [] view = "stream" -> GetStream(r)
      [] view = "json" -> GetJson(r)

-----------------------------------------------------------------------------
(* The Response component: a caller reads the views of one instance, up to
   MaxAccesses times. *)

MaxAccesses == 4

Payloads == { <<"{", "}">>, <<"\\xff">> }

ResponseInit ==
    /\ response \in
         { [instance |-> ResponseInstance(p, d, j), initial |-> p,
            returned |-> [v \in Views |-> <<>>]] :
             p \in Payloads, d \in BOOLEAN, j \in BOOLEAN }
    /\ IndexIdle /\ WrappedIdle /\ ConversionIdle /\ OthersIdle

Accesses == response.returned

AccessCount ==
    Len(Accesses["text"]) + Len(Accesses["html"]) + Len(Accesses["stream"])
    + Len(Accesses["json"])

\* The caller reads a view.
Access(view) ==
    /\ AccessCount < MaxAccesses
    /\ LET got == GetView(response.instance, view)
       IN  response' = [response EXCEPT !.instance = got[1],
                                        !.returned[view] = Append(@, got[2])]
    /\ UNCHANGED <<index, wrapped, conversion, otherVars>>

ResponseNext == \E view \in Views : Access(view)

SpecResponse == ResponseInit /\ [][ResponseNext]_vars

-----------------------------------------------------------------------------
(* scripts/convert_corpus_to_schema.py: process, write_batch and main. The
   rows of the corpus are numbered in the order of its lines. *)

\* The number of records at which main writes the batch of texts to a file: the
\* 10000 of main, scaled to the corpora of the model.
BatchSize == 3

\* A batch that is never taken to be full.
BatchNeverFull(batch) == FALSE

\* len(text_batch) == 10000
BatchFull(batch) == Len(batch) = BatchSize

\* The jurisdictions that jurisdiction_normalise has a code for.
NormalisedJurisdictions ==
    {"south_australia", "western_australia", "tasmania", "new_south_wales",
     "commonwealth", "queensland", "victoria", "norfolk_island"}

\* process(row): the record of the document index and the record of the text, or
\* the KeyError of jurisdiction_normalise.
process(row) ==
    IF row.jurisdiction \notin NormalisedJurisdictions THEN Raise(KeyError)
    ELSE [class |-> "tuple",
          doc |-> [class |-> "Document", id |-> row.id],
          text |-> [class |-> "DocumentText", id |-> row.id]]

\* write_batch(dir, batch): a new file in the directory, a line per item.
write_batch(files, batch) == Append(files, batch)

\* One pass of the loop of main over a line of the corpus.
MainRow(c, row) ==
    LET read == [c EXCEPT !.rows = Append(@, row)]
        made == process(row)
        batch == Append(c.batch, made.text)
    IN  IF row.type = "bill" THEN read
        ELSE IF made.class # "tuple" THEN [read EXCEPT !.pc = "raised", !.result = made]
        ELSE IF BatchFull(batch)
        THEN [read EXCEPT !.document_file = Append(@, made.doc),
                          !.files = write_batch(@, batch),
                          !.batch = <<>>]
        ELSE [read EXCEPT !.document_file = Append(@, made.doc),
                          !.batch = batch]

\* main after the last line of the corpus: the batch is written and emptied.
MainEnd(c) ==
    [c EXCEPT !.pc = "returned", !.files = write_batch(@, c.batch), !.batch = <<>>,
              !.result = ReturnNone]

-----------------------------------------------------------------------------
(* The conversion component: main runs over a corpus of up to MaxRows lines. *)

MaxRows == 7

\* The rows by what main and process look at: a bill, a decision of a
\* jurisdiction with a code, and one of a jurisdiction without.
RowKinds ==
    { [type |-> "bill", jurisdiction |-> "queensland"],
      [type |-> "decision", jurisdiction |-> "queensland"],
      [type |-> "decision", jurisdiction |-> "northern_territory"] }

Row(id, kind) == [id |-> id, type |-> kind.type, jurisdiction |-> kind.jurisdiction]

\* main has opened the index and emptied the directory of the texts.
ConversionInit ==
    /\ conversion = [pc |-> "loop", rows |-> <<>>, document_file |-> <<>>,
                     batch |-> <<>>, files |-> <<>>, result |-> [class |-> "pending"]]
    /\ IndexIdle /\ ResponseIdle /\ WrappedIdle /\ OthersIdle

\* main reads the next line of the corpus.
ReadRow(kind) ==
    /\ conversion.pc = "loop"
    /\ Len(conversion.rows) < MaxRows
    /\ conversion' = MainRow(conversion, Row(Len(conversion.rows) + 1, kind))
    /\ UNCHANGED <<index, response, wrapped, otherVars>>

\* The corpus has no further line.
EndOfCorpus ==
    /\ conversion.pc = "loop"
    /\ conversion' = MainEnd(conversion)
    /\ UNCHANGED <<index, response, wrapped, otherVars>>

ConversionNext ==
    \/ \E kind \in RowKinds : ReadRow(kind)
    \/ EndOfCorpus

SpecConversion == ConversionInit /\ [][ConversionNext]_vars

-----------------------------------------------------------------------------
(* helpers.py: log, its two wrappers. A frame is a call of a wrapped function:
   the function, whether it is a coroutine function, and its arguments. What a
   call ends with is a value or an exception, each an object with an id. *)

\* An exception that is no Exception, as asyncio.CancelledError is.
BaseExceptionClasses == {"CancelledError"}

\* The warning of the wrappers: ERROR_MESSAGE.format(func, e, args, kwargs)
ErrorMessage(frame, e) ==
    [function |-> frame.function, error |-> e, args |-> frame.args,
     kwargs |-> frame.kwargs]

\* A wrapper that gives the warning and returns None.
sync_wrapper_swallows(frame, outcome, warnings) ==
    IF outcome.class \in ExceptionClasses
    THEN <<ReturnNone, Append(warnings, ErrorMessage(frame, outcome))>>
    ELSE <<outcome, warnings>>

\* sync_wrapper(*args, **kwargs), given what func(*args, **kwargs) ended with:
\* what the wrapper ends with, and the warnings after it.
sync_wrapper(frame, outcome, warnings) ==
    IF outcome.class \in ExceptionClasses
    THEN <<outcome, Append(warnings, ErrorMessage(frame, outcome))>>
    ELSE <<outcome, warnings>>

\* async_wrapper(*args, **kwargs), given what await func(*args, **kwargs) ended
\* with.
async_wrapper(frame, outcome, warnings) ==
    IF outcome.class \in ExceptionClasses
    THEN <<outcome, Append(warnings, ErrorMessage(frame, outcome))>>
    ELSE <<outcome, warnings>>

\* log(func): async_wrapper for a coroutine function, else sync_wrapper.
LogWrapper(frame, outcome, warnings) ==
    IF frame.coroutine
    THEN async_wrapper(frame, outcome, warnings)
    ELSE sync_wrapper(frame, outcome, warnings)

-----------------------------------------------------------------------------
(* The log component: wrapped functions call one another, up to MaxDepth deep;
   the innermost returns a value or raises, and each function hands on what the
   one it called ended with. *)

MaxDepth == 3

\* The wrapped functions with the arguments they are called with.
WrappedFrames ==
    { [function |-> "f", coroutine |-> co, args |-> <<"x">>,
       kwargs |-> <<(<<"k", "v">>)>>] : co \in BOOLEAN }
    \cup { [function |-> "g", coroutine |-> co, args |-> <<>>, kwargs |-> <<>>] :
             co \in BOOLEAN }

\* What the innermost function ends with.
Outcomes ==
    { [class |-> "str", id |-> 1], ReturnNone }
    \cup { [class |-> c, id |-> 1] : c \in {"ValueError", Exception} \cup BaseExceptionClasses }

WrappedInit ==
    /\ wrapped = [chain |-> <<>>, depth |-> 0, pc |-> "calling",
                  raised |-> [class |-> "pending"], outcome |-> [class |-> "pending"],
                  warnings |-> <<>>]
    /\ IndexIdle /\ ResponseIdle /\ ConversionIdle /\ OthersIdle

\* A wrapped function is called, by the caller or by the function called last.
CallWrapped(frame) ==
    /\ wrapped.pc = "calling"
    /\ wrapped.depth < MaxDepth
    /\ wrapped' = [wrapped EXCEPT !.chain = Append(@, frame), !.depth = @ + 1]
    /\ UNCHANGED <<index, response, conversion, otherVars>>

\* The function called last returns or raises.
BodyEnds(outcome) ==
    /\ wrapped.pc = "calling"
    /\ wrapped.depth > 0
    /\ wrapped' = [wrapped EXCEPT !.pc = "ending", !.raised = outcome,
                                  !.outcome = outcome]
    /\ UNCHANGED <<index, response, conversion, otherVars>>

\* The wrapper of the innermost call that has not ended handles what its
\* function ended with, and hands it to the caller of the wrapper.
WrapperEnds ==
    /\ wrapped.pc = "ending"
    /\ wrapped.depth > 0
    /\ LET ended == LogWrapper(wrapped.chain[wrapped.depth], wrapped.outcome,
                               wrapped.warnings)
       IN  wrapped' = [wrapped EXCEPT !.depth = @ - 1, !.outcome = ended[1],
                                      !.warnings = ended[2]]
    /\ UNCHANGED <<index, response, conversion, otherVars>>

WrappedNext ==
    \/ \E frame \in WrappedFrames : CallWrapped(frame)
    \/ \E outcome \in Outcomes : BodyEnds(outcome)
    \/ WrapperEnds

SpecWrapped == WrappedInit /\ [][WrappedNext]_vars

-----------------------------------------------------------------------------
(* The format_citation component: a caller builds a title from pieces of text
   and formats it for a type and a jurisdiction. *)

MaxTitlePieces == 4

TitlePieces ==
    { <<"A">>, <<SP>>, <<LF>>, <<"N", "o">>, <<SP, "N", "o">>, <<"4">>,
      <<"(", "N", "T", ")">>, <<"&">>, <<"a", "m", "p", ";">> }

CiteTypes == {"decision", "primary_legislation"}

\* Two jurisdictions of the table, the first with its abbreviation among the
\* pieces of the titles, and one that the table does not have.
CiteJurisdictions == {"northern_territory", "norfolk_island", "new_zealand"}

CiteInit == CiteIdle /\ TextIdle /\ ReqIdle /\ DocIdle /\ EntryIdle /\ FanIdle /\ ScrapeIdle /\ MoreIdle

\* The caller extends the title by a piece.
TitleAppend(piece) ==
    /\ citeCall.type = None
    /\ Len(title) < MaxTitlePieces
    /\ title' = Append(title, piece)
    /\ UNCHANGED <<citeCall, citation, textVars, reqVars, docVars, entryVars, fanVars, scrapeVars, moreVars>>

FormatCitation(type, jurisdiction) ==
    /\ citeCall.type = None
    /\ citeCall' = [type |-> type, jurisdiction |-> jurisdiction]
    /\ citation' = format_citation(Flatten(title), type, jurisdiction)
    /\ UNCHANGED <<title, textVars, reqVars, docVars, entryVars, fanVars, scrapeVars, moreVars>>

CiteNext ==
    \/ \E piece \in TitlePieces : TitleAppend(piece)
    \/ \E type \in CiteTypes, jurisdiction \in CiteJurisdictions :
           FormatCitation(type, jurisdiction)

SpecCitation == CiteInit /\ [][CiteNext]_vars

-----------------------------------------------------------------------------
(* The clean_text component: a caller builds a str and cleans it, then cleans the
   result again. *)

MaxTextLen == 4
MaxCleanings == 2

TextChars == {"a", SP, LF, TAB, NBSP, CR, BSL, "r", "n"}

TextInit == TextIdle /\ ReqIdle /\ CiteIdle /\ DocIdle /\ EntryIdle /\ FanIdle /\ ScrapeIdle /\ MoreIdle

\* The caller extends the str it is about to clean.
TextAppend(c) ==
    /\ textOut = <<>>
    /\ Len(text) < MaxTextLen
    /\ text' = Append(text, c)
    /\ UNCHANGED <<textOut, reqVars, citeVars, docVars, entryVars, fanVars, scrapeVars, moreVars>>

\* clean_text(text), or clean_text of the previous result.
CleanText ==
    /\ Len(textOut) < MaxCleanings
    /\ textOut' = Append(textOut,
                         clean_text(IF textOut = <<>> THEN text
                                    ELSE textOut[Len(textOut)]))
    /\ UNCHANGED <<text, reqVars, citeVars, docVars, entryVars, fanVars, scrapeVars, moreVars>>

TextNext ==
    \/ \E c \in TextChars : TextAppend(c)
    \/ CleanText

SpecText == TextInit /\ [][TextNext]_vars

-----------------------------------------------------------------------------
(* Properties of Request *)

\* The arguments a and b are identical in the six fields; a mapping may be a
\* dict in one and a frozendict in the other.
IdenticalFields(a, b) ==
    /\ DifferingFields(a, b) = {}
    /\ a.data.items = b.data.items
    /\ a.headers.items = b.headers.items

\* C1: two Requests built with identical path, method, data, headers, encoding and
\* selenium flag, the mappings given as dict or as frozendict, are equal and have
\* the same hash, so that a set to which both were added holds one member for
\* them; two Requests built with arguments that differ in a field are not equal.
RequestEqualityOverAllFields ==
    \A i, j \in DOMAIN reqLog :
        LET a == reqLog[i].args
            b == reqLog[j].args
            r1 == reqLog[i].req
            r2 == reqLog[j].req
        IN  /\ IdenticalFields(a, b) =>
                  /\ RequestEq(r1, r2)
                  /\ RequestHash(r1) # TypeError
                  /\ RequestHash(r1) = RequestHash(r2)
                  /\ Cardinality({ m \in reqSet : RequestEq(m, r1) }) = 1
            /\ DifferingFields(a, b) # {} => ~RequestEq(r1, r2)

\* Two Requests were built from the same non-empty headers, a dict for one and a
\* frozendict for the other, and the set holds one Request.
RequestDictAndFrozenDictBuilt ==
    \E i, j \in DOMAIN reqLog :
        /\ IdenticalFields(reqLog[i].args, reqLog[j].args)
        /\ reqLog[i].args.headers.kind = "dict"
        /\ reqLog[j].args.headers.kind = "frozendict"
        /\ reqLog[i].args.headers.items # <<>>
        /\ Cardinality(reqSet) = 1

-----------------------------------------------------------------------------
(* Properties of format_citation *)

EndsWith(s, suffix) ==
    /\ Len(suffix) <= Len(s)
    /\ DropTo(s, Len(s) - Len(suffix) + 1) = suffix

Occurrences(s, sub) ==
    Cardinality({ i \in 1..(Len(s) - Len(sub) + 1) : SubSeq(s, i, i + Len(sub) - 1) = sub })

\* s has no whitespace at either end, and no whitespace but single spaces within.
SingleSpaced(s) ==
    /\ \A k \in DOMAIN s : IsSpace(s[k]) => s[k] = SP /\ 1 < k /\ k < Len(s)
    /\ \A k \in 1..(Len(s) - 1) : ~(IsSpace(s[k]) /\ IsSpace(s[k + 1]))

\* The positions at which s ends with "No", a space and digits to its end.
TrailingNoAt(s) ==
    { i \in 1..(Len(s) - 3) :
        /\ SubSeq(s, i, i + 2) = <<"N", "o", SP>>
        /\ \A k \in (i + 3)..Len(s) : s[k] \in Digits }

CiteFormatted == citeCall.type # None

CiteAbbr == <<"(">> \o JURISDICTIONS[citeCall.jurisdiction] \o <<")">>

\* C5: for a type other than "decision" and a jurisdiction of the table, the
\* citation ends with "(<abbreviation>)", holds it exactly once, has no leading,
\* trailing or repeated whitespace, and a trailing "No <digits>" of the title is
\* removed from it.
LegislationCitationShape ==
    ( /\ CiteFormatted
      /\ citeCall.type # "decision"
      /\ citeCall.jurisdiction \in DOMAIN JURISDICTIONS ) =>
        LET t == Unescape(Flatten(title))
            body == SubSeq(citation, 1, Len(citation) - Len(CiteAbbr) - 1)
        IN  /\ EndsWith(citation, CiteAbbr)
            /\ Occurrences(citation, CiteAbbr) = 1
            /\ SingleSpaced(citation)
            /\ \A i \in TrailingNoAt(t) :
                  TrailingNoAt(SubSeq(t, 1, i - 1)) = {} => TrailingNoAt(body) = {}

\* The part of C5 that leaves the "No <digits>" of the title aside.
LegislationCitationSuffix ==
    ( /\ CiteFormatted
      /\ citeCall.type # "decision"
      /\ citeCall.jurisdiction \in DOMAIN JURISDICTIONS ) =>
        /\ EndsWith(citation, CiteAbbr)
        /\ Occurrences(citation, CiteAbbr) = 1
        /\ SingleSpaced(citation)

\* C6: for the type "decision" and any jurisdiction, of the table or not, the
\* citation is the unescaped title, its whitespace runs made single spaces and
\* its ends trimmed: nothing is appended to it and nothing is removed from it.
DecisionCitationIsTitle ==
    (CiteFormatted /\ citeCall.type = "decision") =>
        /\ citation # ValueError
        /\ SingleSpaced(citation)
        /\ Split(citation) = Split(Unescape(Flatten(title)))

\* A decision of a jurisdiction of the table, whose title holds the abbreviation
\* and ends with "No 4", was formatted, and the citation kept both.
DecisionWithSuffixFormatted ==
    /\ CiteFormatted
    /\ citeCall.type = "decision"
    /\ citeCall.jurisdiction = "northern_territory"
    /\ Flatten(title) = <<"(", "N", "T", ")", SP, "N", "o", SP, "4">>
    /\ citation = Flatten(title)

\* C13: citation formatting is idempotent: for every title, type and mapped
\* jurisdiction, formatting the citation again gives the citation, for titles
\* with HTML character entities too.
FormatCitationIdempotent ==
    (CiteFormatted /\ citeCall.jurisdiction \in DOMAIN JURISDICTIONS) =>
        format_citation(citation, citeCall.type, citeCall.jurisdiction) = citation

\* The same for the titles that html.unescape leaves without a character
\* reference: those it changes no further.
FormatCitationIdempotentOnceUnescaped ==
    ( /\ CiteFormatted
      /\ citeCall.jurisdiction \in DOMAIN JURISDICTIONS
      /\ Unescape(Unescape(Flatten(title))) = Unescape(Flatten(title)) ) =>
        format_citation(citation, citeCall.type, citeCall.jurisdiction) = citation

-----------------------------------------------------------------------------
(* Properties of make_doc and make_section *)

\* The letters of s: what is left when every non-alphabetic character is removed.
Alphabetic(s) == SelectSeq(s, LAMBDA c : c \notin NonWord \cup Digits \cup {"_"})

DocCalled(function) == docCall.function = function

\* The citation of the call can be formatted: C11 is about the calls where it
\* cannot.
DocCitationFormats ==
    format_citation(docCall.citation, docCall.type, docCall.jurisdiction) # ValueError

\* C3: make_doc returns nothing exactly when the cleaned text, stripped of its
\* non-alphabetic characters, has fewer than 9 characters; for any other text it
\* returns a Document with the formatted citation, the cleaned text and the other
\* arguments unchanged.
MakeDocNothingIffFewLetters ==
    (DocCalled("make_doc") /\ DocCitationFormats) =>
        LET t == clean_text(Flatten(docText))
        IN  IF Len(Alphabetic(t)) < MinStrippedLen
            THEN docResult = ReturnNone
            ELSE /\ docResult.class = "Document"
                 /\ docResult.citation =
                       format_citation(docCall.citation, docCall.type, docCall.jurisdiction)
                 /\ docResult.text = t
                 /\ docResult.version_id = DocVersionId
                 /\ docResult.type = docCall.type
                 /\ docResult.jurisdiction = docCall.jurisdiction
                 /\ docResult.source = DocSource
                 /\ docResult.mime = DocMime
                 /\ docResult.date = DocDate
                 /\ docResult.url = DocUrl

\* C4: make_section returns nothing when the cleaned text, stripped of its
\* non-alphabetic characters, has fewer than 9 characters; for any other text it
\* does not raise and returns a Section whose id is the version id, "/" and the
\* formatted citation, and whose document_id is the version id.
MakeSectionReturnsSection ==
    (DocCalled("make_section") /\ DocCitationFormats) =>
        LET t == clean_text(Flatten(docText))
        IN  IF Len(Alphabetic(t)) < MinStrippedLen
            THEN docResult = ReturnNone
            ELSE /\ docResult.class = "Section"
                 /\ docResult.id =
                       DocVersionId \o <<"/">> \o
                       format_citation(docCall.citation, docCall.type, docCall.jurisdiction)
                 /\ docResult.document_id = DocVersionId

\* A call of make_doc or make_section for legislation of a jurisdiction that
\* the table does not have raises the error of format_citation.
UnmappedJurisdictionPropagates ==
    (/\ docCall.function # None
     /\ docCall.type # "decision"
     /\ docCall.jurisdiction \notin DOMAIN JURISDICTIONS) =>
        /\ format_citation(docCall.citation, docCall.type, docCall.jurisdiction)
              = ValueError
        /\ docResult = Raise(ValueError)

\* C11, as the table is: the jurisdiction table of format_citation has exactly
\* 10 entries, and for a type other than "decision" a jurisdiction outside it
\* makes format_citation raise, which make_doc and make_section propagate.
UnmappedJurisdictionRaises ==
    /\ Cardinality(DOMAIN JURISDICTIONS) = 10
    /\ UnmappedJurisdictionPropagates

\* C11, as stated: the same with a table of exactly 9 entries.
UnmappedJurisdictionRaisesNineEntries ==
    /\ Cardinality(DOMAIN JURISDICTIONS) = 9
    /\ UnmappedJurisdictionPropagates

\* make_section has raised for legislation of a jurisdiction outside the table,
\* called with a text long enough to be kept.
SectionOfUnmappedJurisdictionRaised ==
    /\ DocCalled("make_section")
    /\ docCall.type # "decision"
    /\ docCall.jurisdiction \notin DOMAIN JURISDICTIONS
    /\ Len(SubNonWord(clean_text(Flatten(docText)))) >= MinStrippedLen
    /\ docResult = Raise(ValueError)

-----------------------------------------------------------------------------
(* Properties of Entry *)

\* C7: the version id of a constructed Entry is "<source>:<raw>" when the raw id
\* does not start with "<source>:" and the raw id itself when it does, so it
\* always starts with the source and a colon; formatting it again changes
\* nothing.
EntryVersionIdPrefixed ==
    /\ entry.class = "Entry" =>
          LET prefix == entry.source \o <<":">>
          IN  /\ StartsWith(entry.version_id, prefix)
              /\ StartsWith(entryId, prefix) => entry.version_id = entryId
              /\ ~StartsWith(entryId, prefix) => entry.version_id = prefix \o entryId
    /\ entryCopy.class = "Entry" =>
          /\ entryCopy.version_id = entry.version_id
          /\ format_id(entry.version_id, entry.source) = entry.version_id

\* An Entry was constructed from an id that had the prefix of its source, and
\* constructed again from its fields.
PrefixedEntryCopied ==
    /\ entryCopy.class = "Entry"
    /\ entry.source = <<"q", "c">>
    /\ entryId = <<"q", "c", ":", "7">>

-----------------------------------------------------------------------------
(* Properties of the fan-outs *)

\* C8: when every awaitable succeeds, alive_gather returns a list of as many
\* results, the result of the i-th argument at position i, in whatever order the
\* tasks finished.
AliveGatherKeepsInputOrder ==
    (fanKind = "alive_gather" /\ fanPc = "returned") =>
        /\ Len(fanResult) = NumTasks
        /\ \A i \in Tasks : fanResult[i] = fanOutcome[i]

\* alive_gather returned although the last awaitable finished first and the
\* first one last, with results that differ.
AliveGatherReturnedOutOfOrder ==
    /\ fanKind = "alive_gather"
    /\ fanPc = "returned"
    /\ fanOrder[1] = NumTasks
    /\ fanOrder[NumTasks] = 1
    /\ fanOutcome[1] # fanOutcome[NumTasks]

-----------------------------------------------------------------------------
(* Properties of _get_doc *)

\* The fetch of the entry of call i was answered with status 404.
NotFound(i) == calls[i].resp.class = "Response" /\ calls[i].resp.status = 404

\* The call has returned None after one fetch, with no OCR job and no make_doc.
ReturnedNothing(c) ==
    /\ c.pc = "done"
    /\ c.result = ReturnNone
    /\ Len(c.fetched) = 1
    /\ c.ocr = 0
    /\ c.made = 0

\* C9: for every Entry whose fetch returns status 404, _get_doc of both
\* scrapers returns nothing without raising, without a second fetch or an OCR
\* job and without calling make_doc.
NotFoundReturnsNothing ==
    \A i \in DOMAIN calls : NotFound(i) => ReturnedNothing(calls[i])

\* The same for the entries that reach the check of the status before the text
\* of the response is read: those of Victoria, and of Queensland those with a
\* date.
NotFoundReturnsNothingWhenDated ==
    \A i \in DOMAIN calls :
        /\ NotFound(i)
        /\ calls[i].scraper = "vic_legislation" \/ calls[i].entry.date # None
        => ReturnedNothing(calls[i])

\* A call that has ended, however it did, leaves every other call its next
\* step.
EndedCallLeavesOthersRunning ==
    \A i, j \in DOMAIN calls :
        calls[i].pc = "done" /\ calls[j].pc # "done"
        => ENABLED (\/ \E resp \in Responses(calls[j].scraper), now \in Clock :
                          VicGetDoc(j, resp, now) \/ QldGetDoc(j, resp, now)
                    \/ QldGetPdf(j)
                    \/ Pdf2TxtRaise(j))

\* One call has returned nothing for a 404 and another has made a Document
\* after it.
DocumentMadeBesideNotFound ==
    \E i, j \in DOMAIN calls :
        /\ NotFound(i) /\ ReturnedNothing(calls[i])
        /\ calls[j].result.class = "Document"

-----------------------------------------------------------------------------
(* Properties of get_index_reqs and get_index *)

\* The call of a function of a scraper has ended.
IndexDone(scraper, function) ==
    /\ index.scraper = scraper
    /\ index.function = function
    /\ index.pc = "done"

\* The numbers of the pages in the pagination of a listing.
ListingPages(resp) ==
    UNION { { resp.tags[k].text[n] : n \in DOMAIN resp.tags[k].text } :
              k \in { j \in DOMAIN resp.tags : resp.tags[j].name = "a" } }

\* C12: get_index_reqs of QueenslandCaselaw returns a set of Requests, one per
\* page of the listing, and get_index for a Request of that set returns a set of
\* Entries and does not raise.
QldHonoursAdapterContract ==
    /\ IndexDone("queensland_caselaw", "get_index_reqs") /\ index.resp.decodes
       /\ ListingPages(index.resp) # {}
       => index.result = ReturnSet({ QldPageRequest(i) : i \in ListingPages(index.resp) })
    /\ IndexDone("queensland_caselaw", "get_index")
       /\ index.req \in { QldPageRequest(i) : i \in {"1", "2", "685"} }
       => /\ index.result.class = "set"
          /\ \A e \in index.result.items : e.class = "Entry"

\* What the code does instead: both functions of QueenslandCaselaw end by
\* raising, whatever the listing and the Request.
QldIndexAlwaysRaises ==
    \/ IndexDone("queensland_caselaw", "get_index_reqs")
    \/ IndexDone("queensland_caselaw", "get_index")
    => index.result.class \in ExceptionClasses

-----------------------------------------------------------------------------
(* Properties of clean_text *)

\* C2: clean_text is idempotent: cleaning the result of clean_text again gives
\* that result.
CleanTextIdempotent ==
    Len(textOut) >= 2 => textOut[2] = textOut[1]

\* C14: clean_text normalizes line endings: each carriage return with the
\* newline after it is replaced by a single newline, so the output has no
\* carriage return immediately followed by a newline.
CleanTextNormalizesLineEndings ==
    Len(textOut) >= 1 => Occurrences(textOut[1], <<CR, LF>>) = 0

\* What clean_text replaces instead: a backslash, "r", a backslash and "n".
CleanTextReplacesWrittenEscapes ==
    Len(textOut) >= 1 => Occurrences(textOut[1], RawCrLf) = 0

\* The first and the last line of s.
FirstLine(s) ==
    LET ends == { k \in DOMAIN s : s[k] = LF }
    IN  IF ends = {} THEN s ELSE SubSeq(s, 1, Min(ends) - 1)

LastLine(s) ==
    LET ends == { k \in DOMAIN s : s[k] = LF }
    IN  IF ends = {} THEN s ELSE DropTo(s, Max(ends) + 1)

\* The positions of the last characters of the lines of s that have one.
LineEnds(s) == { k \in DOMAIN s : s[k] # LF /\ (k = Len(s) \/ s[k + 1] = LF) }

\* C15: the output of clean_text has no non-breaking space, does not begin with
\* a blank line, does not end with a newline or a blank line, and no line of it,
\* the last included, ends in a space or tab.
CleanTextOutputShape ==
    (Len(textOut) >= 1 /\ textOut[1] # <<>>) =>
        LET out == textOut[1]
        IN  /\ \A k \in DOMAIN out : out[k] # NBSP
            /\ ~AllSpace(FirstLine(out), 1, Len(FirstLine(out)))
            /\ out[Len(out)] # LF
            /\ ~AllSpace(LastLine(out), 1, Len(LastLine(out)))
            /\ \A k \in LineEnds(out) : out[k] \notin {SP, TAB}

\* The same without the last line: the output has no non-breaking space, does
\* not end with a newline, and no line that a newline follows ends in a space or
\* tab.
CleanTextOutputShapeButLastLine ==
    (Len(textOut) >= 1 /\ textOut[1] # <<>>) =>
        LET out == textOut[1]
        IN  /\ \A k \in DOMAIN out : out[k] # NBSP
            /\ out[Len(out)] # LF
            /\ \A k \in LineEnds(out) \ {Len(out)} : out[k] \notin {SP, TAB}

-----------------------------------------------------------------------------
(* Properties of Response *)

\* The objects that the accesses of a view returned: what did not raise.
Returned(view) ==
    SelectSeq(response.returned[view], LAMBDA o : o.class \notin ExceptionClasses)

\* The view was computed at most once, and every access returned the same
\* object.
Memoized(view) ==
    /\ response.instance.made[view] <= 1
    /\ \A j, k \in DOMAIN Returned(view) : Returned(view)[j] = Returned(view)[k]

\* Every access that returned made an object of its own.
MadeAnew(view) ==
    /\ response.instance.made[view] = Len(Returned(view))
    /\ \A j, k \in DOMAIN Returned(view) :
          j # k => Returned(view)[j] # Returned(view)[k]

PayloadUnchanged == response.instance.payload = response.initial

\* C16, as stated: each of the views text, html, json and stream is computed at
\* most once and repeated accesses return the same object, and no access
\* changes the payload.
ResponseViewsMemoized ==
    /\ \A view \in Views : Memoized(view)
    /\ PayloadUnchanged

\* C16, as the code is: text and json are computed at most once and repeated
\* accesses return the same object; html and stream are made anew at every
\* access, html from the memoized text; no access changes the payload.
ResponseTextAndJsonMemoized ==
    /\ Memoized("text") /\ Memoized("json")
    /\ MadeAnew("html") /\ MadeAnew("stream")
    /\ PayloadUnchanged

\* The text was returned twice, and so was the html made from it.
TextAndHtmlReadTwice ==
    /\ Len(Returned("text")) >= 2
    /\ Len(Returned("html")) >= 2

-----------------------------------------------------------------------------
(* Properties of the corpus conversion *)

\* The rows that main has written: those read that are no bills.
ConvertedRows ==
    SelectSeq(conversion.rows, LAMBDA row : row.type # "bill")

\* C17, as stated: every output file, the document index and the files of the
\* texts, holds at most BatchSize records, one a line.
EveryOutputFileCapped ==
    /\ Len(conversion.document_file) <= BatchSize
    /\ \A k \in DOMAIN conversion.files : Len(conversion.files[k]) <= BatchSize

\* C17, as the code is: every file of the texts holds at most BatchSize records,
\* one a line; the document index is one file with a record for every row
\* written, however many.
TextFilesCappedIndexWhole ==
    /\ \A k \in DOMAIN conversion.files : Len(conversion.files[k]) <= BatchSize
    /\ conversion.pc # "raised" =>
          Len(conversion.document_file) = Len(ConvertedRows)

\* The ids of the records of a file, in the order of its lines.
Ids(records) == [k \in DOMAIN records |-> records[k].id]

\* The ids of the records of the files of the texts, file after file in the
\* order in which main wrote them.
RECURSIVE TextIds(_)
TextIds(files) ==
    IF files = <<>> THEN <<>>
    ELSE TextIds(SubSeq(files, 1, Len(files) - 1)) \o Ids(files[Len(files)])

\* When main has returned, every row that is no bill is once in the document
\* index and once in one file of the texts, in the order of the corpus, bills
\* are in neither, and the batch in memory is empty.
EveryRowWrittenOnce ==
    conversion.pc = "returned" =>
        /\ Ids(conversion.document_file) = Ids(ConvertedRows)
        /\ TextIds(conversion.files) = Ids(ConvertedRows)
        /\ conversion.batch = <<>>

\* C21: when main has returned, every row whose type is not "bill" has been
\* written once to the document index and once to one file of the texts, in the
\* order of the corpus, bills are in neither, no record is left in the batch in
\* memory, and no file of the texts is empty.
EveryRowWrittenOnceNoEmptyFile ==
    /\ EveryRowWrittenOnce
    /\ conversion.pc = "returned" =>
          \A k \in DOMAIN conversion.files : conversion.files[k] # <<>>

\* The last file of the texts is empty exactly when the number of rows written
\* is a multiple of the size of a batch; no other file is.
EmptyFileAtMultipleOfBatch ==
    conversion.pc = "returned" =>
        /\ Len(conversion.files) >= 1
        /\ \A k \in 1..(Len(conversion.files) - 1) : Len(conversion.files[k]) = BatchSize
        /\ conversion.files[Len(conversion.files)] = <<>>
              <=> Len(ConvertedRows) % BatchSize = 0

\* main has returned with a full file of texts written and more records in the
\* document index than a batch holds.
IndexLongerThanBatch ==
    /\ conversion.pc = "returned"
    /\ Len(conversion.document_file) > BatchSize
    /\ \E k \in DOMAIN conversion.files : Len(conversion.files[k]) = BatchSize

-----------------------------------------------------------------------------
(* Properties of log *)

\* The calls whose wrappers have ended, the innermost first.
EndedFrames ==
    [k \in 1..(Len(wrapped.chain) - wrapped.depth) |->
        wrapped.chain[Len(wrapped.chain) + 1 - k]]

\* C18: when the wrapped call raises an Exception, its wrapper gives exactly one
\* warning with the function, the error and the arguments and raises the same
\* exception to its caller; when the call returns, the wrapper returns the
\* result and gives no warning. An exception that has crossed k wrapped calls
\* has been logged k times and is still raised.
LogWarnsAndReraises ==
    wrapped.pc = "ending" =>
        /\ wrapped.outcome = wrapped.raised
        /\ IF wrapped.raised.class \in ExceptionClasses
           THEN wrapped.warnings =
                    [k \in DOMAIN EndedFrames |-> ErrorMessage(EndedFrames[k], wrapped.raised)]
           ELSE wrapped.warnings = <<>>

\* An exception has crossed MaxDepth wrapped calls, blocking and coroutine, and
\* has reached the caller of the outermost.
ExceptionCrossedEveryWrapper ==
    /\ wrapped.pc = "ending"
    /\ wrapped.depth = 0
    /\ Len(wrapped.chain) = MaxDepth
    /\ wrapped.raised.class \in ExceptionClasses
    /\ \E j, k \in DOMAIN wrapped.chain :
          wrapped.chain[j].coroutine /\ ~wrapped.chain[k].coroutine

-----------------------------------------------------------------------------
(* Properties of VicLegislation *)

\* The response that a call got is there and is a 404, or is there with a
\* content type that the scraper does not handle.
Got404(c) == c.resp.class = "Response" /\ c.resp.status = 404

GotOtherType(c) ==
    /\ c.resp.class = "Response"
    /\ c.resp.status # 404
    /\ c.resp.type \notin {"text/html", "application/pdf"}

\* C19: in VicLegislation a response that is no 404 and whose content type is
\* neither text/html nor application/pdf makes _get_doc and _get_entry raise,
\* and the error of _get_entry leaves get_index; a 404 yields nothing whatever
\* its content type; and the set that get_index returns has the entries of the
\* calls of _get_entry that returned one, and nothing else.
VicContentTypeAndNotFound ==
    /\ \A i \in DOMAIN calls :
          /\ Got404(calls[i]) => calls[i].result = ReturnNone
          /\ GotOtherType(calls[i]) => calls[i].result = Raise(ValueError)
    /\ index.scraper = "vic_legislation" =>
          /\ \A k \in DOMAIN index.children :
                /\ Got404(index.children[k]) => index.children[k].result = ReturnNone
                /\ GotOtherType(index.children[k]) =>
                      /\ index.children[k].result = Raise(ValueError)
                      /\ index.pc = "done"
                      /\ index.result.class \in ExceptionClasses
          /\ (index.function = "get_index" /\ index.pc = "done"
              /\ index.result.class \notin ExceptionClasses) =>
                /\ index.result.class = "set"
                /\ index.result.items =
                      { index.children[k].result :
                          k \in { j \in DOMAIN index.children :
                                    index.children[j].result.class = "Entry" } }
                /\ \A k \in DOMAIN index.children : index.children[k].pc = "done"

\* get_index has dropped the entry of a status page that was a 404 of type
\* text/plain and returned another, for which _get_doc raised on a response of
\* type text/plain.
MissingEntryDroppedAndDocRaised ==
    /\ index.function = "get_index"
    /\ index.result.class = "set"
    /\ \E k \in DOMAIN index.children :
          Got404(index.children[k]) /\ index.children[k].resp.type = "text/plain"
    /\ calls # <<>>
    /\ GotOtherType(calls[1])
    /\ calls[1].result = Raise(ValueError)

-----------------------------------------------------------------------------
(* Properties of the two paths of _get_doc *)

\* The call returned a Document over the page, or over the text of the PDF.
MadeFromHtml(c) == c.result.class = "Document" /\ c.ocr = 0
MadeFromPdf(c) == c.result.class = "Document" /\ c.ocr = 1

\* pdf2txt raised in the call.
OcrFailed(c) == c.pc = "done" /\ c.ocr = 1 /\ c.made = 0

SameEntryFields == {"version_id", "type", "jurisdiction", "source", "citation"}

\* C20, as stated: of two calls of _get_doc for one Entry, one over the page and
\* one over the PDF, the Documents have every field populated and agree on
\* version_id, type, jurisdiction, source, date and citation; and a call whose
\* pdf2txt raised ends with the exception.
PathsConvergePopulated ==
    /\ \A i, j \in DOMAIN calls :
          (MadeFromHtml(calls[i]) /\ MadeFromPdf(calls[j])) =>
              /\ \A f \in DocumentFields :
                    calls[i].result[f] # None /\ calls[j].result[f] # None
              /\ \A f \in SameEntryFields \cup {"date"} :
                    calls[i].result[f] = calls[j].result[f]
    /\ \A i \in DOMAIN calls :
          OcrFailed(calls[i]) => calls[i].result.class \in ExceptionClasses

\* C20, amended: the two Documents agree on version_id, type, jurisdiction,
\* source and citation, and on the date when the Entry has one; every field but
\* date and other is populated, other never is, and the date is the Entry's or,
\* if it has none, in QueenslandCaselaw the publication date of the page of the
\* call; a call whose pdf2txt raised ends with the exception, logged, and makes
\* no Document.
PathsConverge ==
    /\ \A i, j \in DOMAIN calls :
          (MadeFromHtml(calls[i]) /\ MadeFromPdf(calls[j])) =>
              /\ \A f \in SameEntryFields : calls[i].result[f] = calls[j].result[f]
              /\ calls[i].entry.date # None =>
                    calls[i].result.date = calls[j].result.date
    /\ \A i \in DOMAIN calls :
          LET c == calls[i]
          IN  /\ c.result.class = "Document" =>
                    /\ \A f \in DocumentFields \ {"date", "other"} : c.result[f] # None
                    /\ c.result.other = None
                    /\ c.result.version_id = c.entry.version_id
                    /\ c.result.type = c.entry.type
                    /\ c.result.jurisdiction = c.entry.jurisdiction
                    /\ c.result.source = c.entry.source
                    /\ c.result.citation =
                          format_citation(c.entry.title, c.entry.type, c.entry.jurisdiction)
                    /\ c.result.date =
                          IF c.entry.date # None THEN c.entry.date
                          ELSE IF /\ c.scraper = "queensland_caselaw"
                                  /\ PublicationDate \in ResponseText(c.resp).contains
                               THEN "2024-05-30"
                               ELSE None
                    /\ c.result.mime = IF c.ocr = 1 THEN "application/pdf" ELSE "text/html"
              /\ OcrFailed(c) =>
                    /\ c.result = Raise(<<Exception>>)
                    /\ c.warnings # <<>>
                    /\ c.warnings[Len(c.warnings)] = "log"

\* For one Entry with a date a Document was made over the page and another over
\* the PDF, with different mime types.
BothPathsMadeDocument ==
    /\ Len(calls) = 2
    /\ calls[1].entry = calls[2].entry
    /\ calls[1].entry.date # None
    /\ MadeFromHtml(calls[1])
    /\ MadeFromPdf(calls[2])
    /\ calls[1].result.mime # calls[2].result.mime

=============================================================================
